---- MODULE Spec2Model ----
(***************************************************************************)
(* The better-auth-asaas plugin as a state machine: the Asaas webhook       *)
(* endpoint (src/src/endpoints/webhook.ts), the session-gated endpoints     *)
(* (src/src/endpoints/subscription.ts, customer.ts) and the sign-up hook    *)
(* (src/src/plugin.ts).                                                     *)
(*                                                                          *)
(* One request is one run of an async handler.  The handler is cut at its   *)
(* await points: every action below is the code that runs between two       *)
(* awaits, together with the outcome of the awaited call (a store call, a   *)
(* call of the gateway client, a caller-supplied handler), which the        *)
(* environment chooses.                                                     *)
(***************************************************************************)
EXTENDS Integers, Sequences, FiniteSets, TLC

\* ------------------------------------------------------------------ bounds
\* number of notification slots that may be in flight at the same time
MaxInFlight == 2
\* number of UTC calendar days the clock ranges over
NumDays == 2
\* largest trialDays a create-subscription request carries
MaxTrialDays == 2

\* ------------------------------------------------------------- vocabulary
\* JavaScript undefined: an absent snapshot, an absent field, an absent header
None == "undefined"

\* the event codes the switch names (webhook.ts:56-121)
RecognizedEvents ==
    { "PAYMENT_CREATED", "PAYMENT_DUE_DATE_REMINDER", "PAYMENT_OVERDUE",
      "PAYMENT_CONFIRMED", "PAYMENT_RECEIVED",
      "PAYMENT_REFUNDED", "PAYMENT_PARTIALLY_REFUNDED",
      "PAYMENT_CHARGEBACK_REQUESTED", "PAYMENT_CHARGEBACK_DISPUTE",
      "PAYMENT_AWAITING_CHARGEBACK_REVERSAL",
      "SUBSCRIPTION_CREATED", "SUBSCRIPTION_RENEWED", "SUBSCRIPTION_DELETED" }

\* codes the switch does not name: the other codes of the declared vocabulary
\* and, the type being open (| string), a code the gateway may add
\* (unnamed/part_001:5-26)
OtherEvents ==
    { "PAYMENT_UPDATED", "PAYMENT_DELETED", "PAYMENT_RESTORED", "SUBSCRIPTION_UPDATED",
      "TRANSFER_DONE" }

AsaasWebhookEventType == RecognizedEvents \cup OtherEvents

\* the handler slots of AsaasEventHandlers (unnamed/part_001:74-144)
AsaasEventHandlers ==
    { "onPaymentCreated", "onPaymentDueSoon", "onPaymentDue", "onPaymentOverdue",
      "onPaymentConfirmed", "onPaymentRefunded", "onPaymentChargeback",
      "onSubscriptionCreated", "onSubscriptionRenewed", "onSubscriptionCanceled",
      "onOtherEvent" }

\* gateway ids; sub_1 and pay_1 have a mirror row, sub_2 and pay_2 have none
SubIds == { "sub_1", "sub_2" }
PayIds == { "pay_1", "pay_2" }

BillingTypes == { "PIX", "BOLETO" }

\* the clock: instants are half-days counted from the midnight (UTC) that starts
\* the first day; a date is the YYYY-MM-DD string of a calendar day
TicksPerDay == 2
Instants == 0 .. (NumDays * TicksPerDay - 1)

\* offsets of the process's time zone from UTC, in ticks
TZOffsets == { -1, 0, 1 }

\* the YYYY-MM-DD string of the day with index d (day 0 is 2026-11-01)
DateString(d) ==
    CASE d = -1 -> "2026-10-31"
      [] d = 0 -> "2026-11-01"
      [] d = 1 -> "2026-11-02"
      [] d = 2 -> "2026-11-03"
      [] d = 3 -> "2026-11-04"
      [] d = 4 -> "2026-11-05"
      [] d = 5 -> "2026-11-06"
      [] d = 6 -> "2026-11-07"
      [] d = 7 -> "2026-11-08"
      [] d = 8 -> "2026-11-09"
      [] OTHER -> "2026-11-10"

\* the dates the clock can show in UTC
Dates == { DateString(d) : d \in 0 .. (NumDays - 1) }

\* new Date().toISOString().split("T")[0]: the UTC calendar date of an instant
ISODate(t) == DateString(t \div TicksPerDay)
\* the calendar date the same instant has on the wall clock of a process whose
\* time zone is tz ticks ahead of UTC
LocalDate(t, tz) == DateString((t + tz) \div TicksPerDay)

\* ------------------------------------------------------------------ state
VARIABLES
    webhookSecret,      \* options.webhookSecret, None when not configured
    handlers,           \* the slots of AsaasEventHandlers that are registered
    asaasSubscription,  \* mirror table: gateway id -> row, NoRow when absent
    asaasPayment,       \* mirror table: gateway id -> row, NoRow when absent
    lastWrite,          \* per gateway subscription id, the status carried by the
                        \* last write of asaasSubscription that went through
    req,                \* the notifications in flight, one record per slot
    user,               \* user table: user id -> asaasCustomerId, None when unset
    customers,          \* the gateway's customers: id -> externalReference,
                        \* None for an id the gateway has not issued
    options,            \* options.disableAutoCreateCustomer, and whether
                        \* options.onCustomerCreated is supplied
    ep,                 \* the call of a session-gated endpoint in flight
    hook,               \* the runs of the sign-up hook, one record per slot
    client,             \* the fields of the AsaasClient: apiKey, userAgent
    http                \* the request of the gateway client in flight

vars == << webhookSecret, handlers, asaasSubscription, asaasPayment, lastWrite, req,
           user, customers, options, ep, hook, client, http >>

\* what the webhook endpoint leaves alone
sessionSide == << user, customers, options, ep, hook, client, http >>

NoRow == [ absent |-> TRUE ]
\* body.payment or body.subscription is undefined
NoSnapshot == [ absent |-> TRUE ]

\* values of the asaas-access-token header; None is an absent header
Tokens == { None, "whsec_a", "whsec_b" }
\* values of options.webhookSecret; None is no secret configured
Secrets == { None, "whsec_a" }

\* responses of the endpoint: none yet, ctx.json({error:"Unauthorized"},401),
\* ctx.json({received:true}), or the handler's promise rejected (the request fails)
Unanswered == "unanswered"
Unauthorized401 == "401 Unauthorized"
Received == "received: true"
Rejected == "endpoint failed"

\* embedded subscription snapshots (AsaasSubscriptionWebhookData, unnamed/part_001:43-53),
\* reduced to the fields the endpoint reads
SubscriptionSnapshots ==
    { NoSnapshot } \cup [ id : { None } \cup SubIds, status : { None, "ACTIVE", "INACTIVE" } ]

\* embedded payment snapshots (AsaasPaymentWebhookData, unnamed/part_001:28-41), reduced
\* to the fields the endpoint reads.  billingType is read only by the
\* PAYMENT_CREATED and PAYMENT_DUE_DATE_REMINDER branches and dueDate only by
\* the PAYMENT_OVERDUE branch: the other events carry one fixed value of them.
PaymentSnapshots(event) ==
    { NoSnapshot } \cup
    [ id : { None } \cup PayIds,
      status : { None, "RECEIVED" },
      billingType : IF event \in { "PAYMENT_CREATED", "PAYMENT_DUE_DATE_REMINDER" }
                    THEN BillingTypes ELSE { "BOLETO" },
      dueDate : IF event = "PAYMENT_OVERDUE" THEN { None } \cup Dates ELSE { None } ]

\* a slot with no notification in it
Idle ==
    [ pc |-> "idle", token |-> None, event |-> None, payment |-> NoSnapshot,
      subscription |-> NoSnapshot, resp |-> Unanswered,
      updates |-> << >>,    \* adapter.update calls issued, with their outcome
      gateway |-> << >>,    \* gateway client calls made
      pixQrCode |-> None,   \* enriched.pixQrCode
      slots |-> << >>,      \* handler slots the switch reached
      calls |-> << >>,      \* handlers invoked, with the payload they got
      pending |-> FALSE,    \* the invoked handler has not settled yet
      threw |-> FALSE,      \* the invoked handler threw or rejected
      logged |-> 0,         \* calls of ctx.context.logger.error
      today |-> None,       \* new Date().toISOString().split("T")[0], when read
      utcToday |-> None,    \* the UTC calendar date at that instant
      localToday |-> None ] \* the process's local calendar date at that instant

Slots == 1 .. MaxInFlight

\* users of the application; a session always belongs to one of them
Users == { "user_1", "user_2" }
\* the ids the gateway gives its customers
CustomerIds == { "cus_1", "cus_2", "cus_3" }

\* HTTP answers of the session-gated endpoints
Ok200 == "200"
BadRequest400 == "400"
NotFound404 == "404"

\* the session-gated endpoints that take the gateway id of a mirror row
KeyedOps == { "cancelSubscription", "subscriptionPayments", "deletePayment", "pixQrCode" }
\* the endpoints that create a payment: /asaas/payment/create, /boleto and
\* /credit-card have the same body, /pix fetches the QR code afterwards
PaymentCreateOps == { "createPayment", "createPixPayment" }

\* no call of a session-gated endpoint is in flight.  trialDays 0 is an omitted
\* trialDays (the schema admits positive integers only).
EpIdle ==
    [ pc |-> "idle", op |-> None, user |-> None, id |-> None,
      trialDays |-> 0, nextDueDate |-> None,
      today |-> None,            \* the UTC date of the clock when it was read
      localToday |-> None,       \* the local date of the process at that instant
      billingStartDate |-> None, \* the nextDueDate sent to the gateway
      trialEndsAt |-> None,
      looked |-> FALSE,          \* the ownership lookup resolved
      result |-> NoRow,          \* the object the gateway returned
      gateway |-> << >>,         \* gateway client calls made, with their outcome
      writes |-> << >>,          \* store writes issued, with their outcome
      resp |-> Unanswered,
      body |-> NoRow ]           \* the JSON body of a 200 answer

\* no run of the sign-up hook in the slot
HookIdle ==
    [ pc |-> "idle", newUser |-> None, customerId |-> None,
      gateway |-> << >>,     \* gateway client calls made, with their outcome
      wrote |-> None,        \* the asaasCustomerId written to the user row
      called |-> FALSE,      \* options.onCustomerCreated was invoked
      failures |-> 0,        \* awaited calls of the run that threw or rejected
      failed |-> FALSE,      \* the hook rejected: the failure reached the sign-up request
      logged |-> 0 ]         \* calls of ctx.context.logger.error

\* unnamed/part_000:208: this.userAgent = options.userAgent ?? "better-auth-asaas"
UserAgentOf(option) == IF option = None THEN "better-auth-asaas" ELSE option

\* the header names the client and its callers use, as a Headers object keeps
\* them (lower case)
HeaderNames == { "content-type", "user-agent", "access_token", "x-request-id" }

\* a Headers object: name -> value, None for a name it does not hold
NoHeaders == [ n \in HeaderNames |-> None ]

\* no request of the gateway client is in flight
HttpIdle ==
    [ pc |-> "idle", op |-> None,
      method |-> None,          \* init.method, GET when the caller gives none
      initHeaders |-> {},       \* init.headers as the caller of request gave them
      headers |-> NoHeaders,    \* the headers handed to fetch
      status |-> 0,             \* res.status, 0 while there is no response
      body |-> None,            \* the text of the response body
      error |-> None,           \* the message of the error the call threw
      value |-> [ absent |-> TRUE ] ]  \* the value the call returned, none yet

\* the plugin is built with or without a webhook secret, and with every handler
\* or none
Init ==
    /\ webhookSecret \in Secrets
    /\ handlers \in { {}, AsaasEventHandlers }
    /\ asaasSubscription =
         [ i \in SubIds |-> IF i = "sub_1"
                            THEN [ userId |-> "user_1", status |-> "ACTIVE",
                                   nextDueDate |-> DateString(0), trialEndsAt |-> None ]
                            ELSE NoRow ]
    /\ asaasPayment =
         [ i \in PayIds |-> IF i = "pay_1"
                            THEN [ userId |-> "user_1", status |-> "PENDING" ]
                            ELSE NoRow ]
    /\ lastWrite = [ i \in SubIds |-> IF i = "sub_1" THEN "ACTIVE" ELSE None ]
    /\ req = [ r \in Slots |-> Idle ]
    /\ user = [ u \in Users |-> IF u = "user_1" THEN "cus_1" ELSE None ]
    /\ customers = [ c \in CustomerIds |-> IF c = "cus_1" THEN "user_1" ELSE None ]
    /\ options = [ disableAutoCreateCustomer |-> FALSE, onCustomerCreated |-> TRUE ]
    /\ ep = EpIdle
    /\ hook = [ r \in Slots |-> HookIdle ]
    /\ client = [ apiKey |-> "key_a", userAgent |-> UserAgentOf(None) ]
    /\ http = HttpIdle

\* ------------------------------------------------------- pure parts of the code
\* JavaScript truthiness of an optional string field
Truthy(v) == v # None

\* faulty variant: only an absent header is turned away, a wrong token passes
IsUnauthorizedWhenAbsent(secret, token) ==
    /\ Truthy(secret)
    /\ ~ Truthy(token)

\* webhook.ts:16-22: the request is turned away
IsUnauthorized(secret, token) ==
    /\ Truthy(secret)
    /\ (~ Truthy(token) \/ token # secret)

\* faulty variant: the update is not awaited and has not reached the store when
\* the next statement runs
AdapterUpdateNotAwaited(table, id, status) == table

\* faulty variant: the update is a state transition, a row that is INACTIVE
\* (canceled) is not revived
AdapterUpdateUnlessInactive(table, id, status) ==
    [ i \in DOMAIN table |->
        IF i = id /\ table[i] # NoRow /\ table[i].status # "INACTIVE"
        THEN [ table[i] EXCEPT !.status = status ]
        ELSE table[i] ]

\* faulty variant: a canceled or deleted row is removed from the table
AdapterUpdateRemoving(table, id, status) ==
    [ i \in DOMAIN table |->
        IF i = id /\ table[i] # NoRow
        THEN IF status \in { "INACTIVE", "DELETED" } THEN NoRow
             ELSE [ table[i] EXCEPT !.status = status ]
        ELSE table[i] ]

\* faulty variant: the where clause is lost, every row of the table is updated
AdapterUpdateEveryRow(table, id, status) ==
    [ i \in DOMAIN table |->
        IF table[i] # NoRow
        THEN [ table[i] EXCEPT !.status = status ]
        ELSE table[i] ]

\* adapter.update({model, where:[{field:"asaasId", value:id}], update:{status}}):
\* every row with that gateway id gets the status; no such row changes nothing
AdapterUpdate(table, id, status) ==
    [ i \in DOMAIN table |->
        IF i = id /\ table[i] # NoRow
        THEN [ table[i] EXCEPT !.status = status ]
        ELSE table[i] ]

\* webhook.ts:30-32: the generic subscription sync issues its update
SyncsSubscription(subscription) ==
    /\ subscription # NoSnapshot
    /\ Truthy(subscription.id)
    /\ Truthy(subscription.status)

\* webhook.ts:42-44: the generic payment sync issues its update
SyncsPayment(payment) ==
    /\ payment # NoSnapshot
    /\ Truthy(payment.id)
    /\ Truthy(payment.status)

\* faulty variant: the reminder branch lacks the enrichment
FetchesQrCodeOnCreatedOnly(event, payment) ==
    /\ event = "PAYMENT_CREATED"
    /\ payment # NoSnapshot
    /\ payment.billingType = "PIX"
    /\ Truthy(payment.id)

\* faulty variant: the billing type is not looked at, every payment with an id
\* gets a QR fetch
FetchesQrCodeAnyBillingType(event, payment) ==
    /\ event \in { "PAYMENT_CREATED", "PAYMENT_DUE_DATE_REMINDER" }
    /\ payment # NoSnapshot
    /\ Truthy(payment.id)

\* webhook.ts:59-61 and 71-73: the branch fetches a QR code for the payment (the
\* gateway client is always there: plugin.ts:38 passes it)
FetchesQrCode(event, payment) ==
    /\ event \in { "PAYMENT_CREATED", "PAYMENT_DUE_DATE_REMINDER" }
    /\ payment # NoSnapshot
    /\ payment.billingType = "PIX"
    /\ Truthy(payment.id)

\* faulty variant: the forced update is tied to a reported status, as the generic
\* sync is
ForcesInactiveWithStatus(event, subscription) ==
    /\ event = "SUBSCRIPTION_DELETED"
    /\ subscription # NoSnapshot
    /\ Truthy(subscription.id)
    /\ subscription.status = "INACTIVE"

\* webhook.ts:121-125: the SUBSCRIPTION_DELETED branch issues its own update
ForcesInactive(event, subscription) ==
    /\ event = "SUBSCRIPTION_DELETED"
    /\ subscription # NoSnapshot
    /\ Truthy(subscription.id)

\* faulty variant: today is the calendar date of the process's wall clock
TodayLocal(now, tz) == LocalDate(now, tz)

\* webhook.ts:84: new Date().toISOString().split("T")[0], the UTC calendar date,
\* whatever the time zone of the process
Today(now, tz) == ISODate(now)

\* webhook.ts:83-85: the PAYMENT_OVERDUE branch reads the clock
ReadsClock(event, payment) ==
    /\ event = "PAYMENT_OVERDUE"
    /\ payment # NoSnapshot

\* the cases of the switch other than PAYMENT_OVERDUE and PAYMENT_CONFIRMED
OtherCases(event) ==
    CASE event = "PAYMENT_CREATED" -> << "onPaymentCreated" >>
      [] event = "PAYMENT_DUE_DATE_REMINDER" -> << "onPaymentDueSoon" >>
      [] event = "PAYMENT_RECEIVED" -> << "onPaymentConfirmed" >>
      [] event \in { "PAYMENT_REFUNDED", "PAYMENT_PARTIALLY_REFUNDED" } ->
            << "onPaymentRefunded" >>
      [] event \in { "PAYMENT_CHARGEBACK_REQUESTED", "PAYMENT_CHARGEBACK_DISPUTE",
                     "PAYMENT_AWAITING_CHARGEBACK_REVERSAL" } ->
            << "onPaymentChargeback" >>
      [] event = "SUBSCRIPTION_CREATED" -> << "onSubscriptionCreated" >>
      [] event = "SUBSCRIPTION_RENEWED" -> << "onSubscriptionRenewed" >>
      [] event = "SUBSCRIPTION_DELETED" -> << "onSubscriptionCanceled" >>
      [] OTHER -> << "onOtherEvent" >>

\* faulty variant: PAYMENT_RECEIVED is not a case label and ends in the default
SwitchSlotsReceivedUnnamed(event, payment, today) ==
    IF event = "PAYMENT_RECEIVED" THEN << "onOtherEvent" >>
    ELSE IF event = "PAYMENT_OVERDUE"
    THEN IF payment # NoSnapshot /\ payment.dueDate = today
         THEN << "onPaymentDue" >>
         ELSE << "onPaymentOverdue" >>
    ELSE IF event = "PAYMENT_CONFIRMED" THEN << "onPaymentConfirmed" >>
    ELSE OtherCases(event)

\* faulty variant: the due-today test is inverted
SwitchSlotsDueInverted(event, payment, today) ==
    IF event = "PAYMENT_OVERDUE"
    THEN IF payment # NoSnapshot /\ payment.dueDate # today
         THEN << "onPaymentDue" >>
         ELSE << "onPaymentOverdue" >>
    ELSE IF event = "PAYMENT_CONFIRMED" THEN << "onPaymentConfirmed" >>
    ELSE OtherCases(event)

\* faulty variant: the PAYMENT_CONFIRMED case lacks its break and falls through
\* into the refund case
SwitchSlotsFallThrough(event, payment, today) ==
    IF event = "PAYMENT_OVERDUE"
    THEN IF payment # NoSnapshot /\ payment.dueDate = today
         THEN << "onPaymentDue" >>
         ELSE << "onPaymentOverdue" >>
    ELSE IF event = "PAYMENT_CONFIRMED"
         THEN << "onPaymentConfirmed", "onPaymentRefunded" >>
    ELSE OtherCases(event)

\* webhook.ts:55-138: the handler slots the switch reaches, in order.  Every
\* case ends in a break, so the switch reaches one slot.
SwitchSlots(event, payment, today) ==
    CASE event = "PAYMENT_CREATED" -> << "onPaymentCreated" >>
      [] event = "PAYMENT_DUE_DATE_REMINDER" -> << "onPaymentDueSoon" >>
      [] event = "PAYMENT_OVERDUE" ->
            IF payment # NoSnapshot
            THEN IF payment.dueDate = today
                 THEN << "onPaymentDue" >>
                 ELSE << "onPaymentOverdue" >>
            ELSE << "onPaymentOverdue" >>
      [] event \in { "PAYMENT_CONFIRMED", "PAYMENT_RECEIVED" } ->
            << "onPaymentConfirmed" >>
      [] event \in { "PAYMENT_REFUNDED", "PAYMENT_PARTIALLY_REFUNDED" } ->
            << "onPaymentRefunded" >>
      [] event \in { "PAYMENT_CHARGEBACK_REQUESTED", "PAYMENT_CHARGEBACK_DISPUTE",
                     "PAYMENT_AWAITING_CHARGEBACK_REVERSAL" } ->
            << "onPaymentChargeback" >>
      [] event = "SUBSCRIPTION_CREATED" -> << "onSubscriptionCreated" >>
      [] event = "SUBSCRIPTION_RENEWED" -> << "onSubscriptionRenewed" >>
      [] event = "SUBSCRIPTION_DELETED" -> << "onSubscriptionCanceled" >>
      [] OTHER -> << "onOtherEvent" >>

\* handlers.onX?.(payload): the slots among ss that hold a handler
RegisteredIn(ss, hs) == SelectSeq(ss, LAMBDA h : h \in hs)

\* the payload object handed to a handler (webhook.ts:27, 58, 70)
Payload(q, pixQrCode) ==
    [ event |-> q.event, payment |-> q.payment, subscription |-> q.subscription,
      pixQrCode |-> pixQrCode ]

\* faulty variant: no catch around the switch, a throwing handler fails the request
TryWithoutCatch(throws) ==
    IF throws
    THEN [ pc |-> "done", resp |-> Rejected, logged |-> 0 ]
    ELSE [ pc |-> "respond", resp |-> Unanswered, logged |-> 0 ]

\* webhook.ts:54, 139-142: the try block around the switch; what a handler
\* throws is caught and logged, and the code after the try runs either way
TryCatch(throws) ==
    [ pc |-> "respond", resp |-> Unanswered, logged |-> IF throws THEN 1 ELSE 0 ]

\* faulty variant: the handler is called without await, the code goes on while
\* the handler runs
AfterInvokeNoAwait(registered) == "respond"

\* await handlers.onX?.(payload): where the request is after the call.  With a
\* handler in the slot the request waits until the handler settles; with none
\* the optional call is undefined and the code goes on.
AfterInvoke(registered) ==
    IF registered # << >> THEN "awaitHandler" ELSE "respond"

\* the record of one adapter.update call: the statement that issued it
\* ("sync" for webhook.ts:33 and 45, "force" for webhook.ts:126), its arguments
\* and whether it resolved
UpdateCall(by, model, id, status, ok) ==
    [ by |-> by, model |-> model, id |-> id, status |-> status, ok |-> ok ]

\* ---------------------------------------------------------------- actions
\* webhook.ts:14-27: a notification arrives with its header and body; the
\* secret check runs before anything else
Accept(r, token, event, payment, subscription) ==
    /\ req[r].pc = "idle"
    /\ req' = [ req EXCEPT ![r] =
                  [ Idle EXCEPT
                      !.token = token, !.event = event,
                      !.payment = payment, !.subscription = subscription,
                      !.pc = IF IsUnauthorized(webhookSecret, token)
                             THEN "done" ELSE "syncSubscription",
                      !.resp = IF IsUnauthorized(webhookSecret, token)
                               THEN Unauthorized401 ELSE Unanswered ] ]
    /\ UNCHANGED << webhookSecret, handlers, asaasSubscription, asaasPayment, lastWrite >>
    /\ UNCHANGED sessionSide

\* any notification the gateway (or anyone who knows the URL) may post
Receive(r) ==
    /\ req[r].pc = "idle"
    /\ \E token \in Tokens, event \in AsaasWebhookEventType,
          subscription \in SubscriptionSnapshots :
         \E payment \in PaymentSnapshots(event) :
           Accept(r, token, event, payment, subscription)

\* webhook.ts:29-39: the generic subscription sync.  The update is awaited
\* with no catch and outside the try: when it rejects, the handler rejects.
SyncSubscription(r) ==
    /\ req[r].pc = "syncSubscription"
    /\ LET q == req[r]
           sub == q.subscription
       IN IF SyncsSubscription(sub)
          THEN \E ok \in BOOLEAN :
                 /\ asaasSubscription' =
                      IF ok THEN AdapterUpdate(asaasSubscription, sub.id, sub.status)
                      ELSE asaasSubscription
                 /\ lastWrite' = IF ok THEN [ lastWrite EXCEPT ![sub.id] = sub.status ]
                                  ELSE lastWrite
                 /\ req' = [ req EXCEPT ![r] =
                      [ q EXCEPT
                          !.updates = Append(@, UpdateCall("sync", "asaasSubscription",
                                                           sub.id, sub.status, ok)),
                          !.pc = IF ok THEN "syncPayment" ELSE "done",
                          !.resp = IF ok THEN Unanswered ELSE Rejected ] ]
          ELSE /\ req' = [ req EXCEPT ![r].pc = "syncPayment" ]
               /\ UNCHANGED << asaasSubscription, lastWrite >>
    /\ UNCHANGED << webhookSecret, handlers, asaasPayment >>
    /\ UNCHANGED sessionSide

\* webhook.ts:41-51: the generic payment sync; a rejected update is caught
SyncPayment(r) ==
    /\ req[r].pc = "syncPayment"
    /\ LET q == req[r]
           p == q.payment
       IN IF SyncsPayment(p)
          THEN \E ok \in BOOLEAN :
                 /\ asaasPayment' =
                      IF ok THEN AdapterUpdate(asaasPayment, p.id, p.status)
                      ELSE asaasPayment
                 /\ req' = [ req EXCEPT ![r] =
                      [ q EXCEPT
                          !.updates = Append(@, UpdateCall("sync", "asaasPayment",
                                                           p.id, p.status, ok)),
                          !.pc = "dispatch" ] ]
          ELSE /\ req' = [ req EXCEPT ![r].pc = "dispatch" ]
               /\ UNCHANGED asaasPayment
    /\ UNCHANGED << webhookSecret, handlers, asaasSubscription, lastWrite >>
    /\ UNCHANGED sessionSide

\* webhook.ts:58-64 and 70-76: the QR enrichment, one getPixQrCode call whose
\* failure is swallowed
Enrich(r) ==
    /\ req[r].pc = "dispatch"
    /\ FetchesQrCode(req[r].event, req[r].payment)
    /\ \E ok \in BOOLEAN :
         req' = [ req EXCEPT ![r] =
                    [ req[r] EXCEPT
                        !.gateway = Append(@, [ op |-> "getPixQrCode",
                                                id |-> req[r].payment.id,
                                                ok |-> ok ]),
                        !.pixQrCode = IF ok THEN "qr code" ELSE None,
                        !.pc = "invoke" ] ]
    /\ UNCHANGED << webhookSecret, handlers, asaasSubscription, asaasPayment, lastWrite >>
    /\ UNCHANGED sessionSide

\* webhook.ts:121-132: SUBSCRIPTION_DELETED forces the row to INACTIVE; a
\* rejected update is caught
ForceInactive(r) ==
    /\ req[r].pc = "dispatch"
    /\ ForcesInactive(req[r].event, req[r].subscription)
    /\ \E ok \in BOOLEAN :
         /\ asaasSubscription' =
              IF ok THEN AdapterUpdate(asaasSubscription, req[r].subscription.id,
                                       "INACTIVE")
              ELSE asaasSubscription
         /\ lastWrite' = IF ok THEN [ lastWrite EXCEPT ![req[r].subscription.id] = "INACTIVE" ]
                          ELSE lastWrite
         /\ req' = [ req EXCEPT ![r] =
                       [ req[r] EXCEPT
                           !.updates = Append(@, UpdateCall("force", "asaasSubscription",
                                               req[r].subscription.id, "INACTIVE", ok)),
                           !.pc = "invoke" ] ]
    /\ UNCHANGED << webhookSecret, handlers, asaasPayment >>
    /\ UNCHANGED sessionSide

\* webhook.ts:54-138: the switch picks the slot and calls its handler, if one
\* is registered
InvokeHandler(r) ==
    /\ \/ req[r].pc = "invoke"
       \/ /\ req[r].pc = "dispatch"
          /\ ~ FetchesQrCode(req[r].event, req[r].payment)
          /\ ~ ForcesInactive(req[r].event, req[r].subscription)
    /\ LET q == req[r]
       IN \E now \in IF ReadsClock(q.event, q.payment) THEN Instants ELSE { 0 },
             tz \in IF ReadsClock(q.event, q.payment) THEN TZOffsets ELSE { 0 } :
            LET today == IF ReadsClock(q.event, q.payment) THEN Today(now, tz) ELSE None
                ss == SwitchSlots(q.event, q.payment, today)
                registered == RegisteredIn(ss, handlers)
            IN req' = [ req EXCEPT ![r] =
                   [ q EXCEPT
                       !.today = today,
                       !.utcToday = IF ReadsClock(q.event, q.payment)
                                    THEN ISODate(now) ELSE None,
                       !.localToday = IF ReadsClock(q.event, q.payment)
                                      THEN LocalDate(now, tz) ELSE None,
                       !.slots = ss,
                       !.calls = [ i \in 1 .. Len(registered) |->
                                     [ slot |-> registered[i],
                                       payload |-> Payload(q, q.pixQrCode) ] ],
                       !.pending = registered # << >>,
                       !.pc = AfterInvoke(registered) ] ]
    /\ UNCHANGED << webhookSecret, handlers, asaasSubscription, asaasPayment, lastWrite >>
    /\ UNCHANGED sessionSide

\* the handler, synchronous or asynchronous, returns or throws; what it throws
\* is caught and logged (webhook.ts:139-142) and the code after the try runs
\* either way
HandlerSettles(r) ==
    /\ req[r].pending
    /\ \E throws \in BOOLEAN :
         req' = [ req EXCEPT ![r] =
                   [ req[r] EXCEPT
                       !.pending = FALSE,
                       !.threw = throws,
                       !.logged = TryCatch(throws).logged,
                       !.resp = IF req[r].pc = "awaitHandler"
                                THEN TryCatch(throws).resp ELSE @,
                       !.pc = IF req[r].pc = "awaitHandler"
                              THEN TryCatch(throws).pc ELSE @ ] ]
    /\ UNCHANGED << webhookSecret, handlers, asaasSubscription, asaasPayment, lastWrite >>
    /\ UNCHANGED sessionSide

\* webhook.ts:144: the acknowledgment
Respond(r) ==
    /\ req[r].pc = "respond"
    /\ req' = [ req EXCEPT ![r].resp = Received, ![r].pc = "done" ]
    /\ UNCHANGED << webhookSecret, handlers, asaasSubscription, asaasPayment, lastWrite >>
    /\ UNCHANGED sessionSide

\* the response has been sent and the request is gone
Complete(r) ==
    /\ req[r].pc = "done"
    /\ req' = [ req EXCEPT ![r] = Idle ]
    /\ UNCHANGED << webhookSecret, handlers, asaasSubscription, asaasPayment, lastWrite >>
    /\ UNCHANGED sessionSide

\* notifications are delivered one at a time
Next ==
    \/ Receive(1)
    \/ SyncSubscription(1)
    \/ SyncPayment(1)
    \/ Enrich(1)
    \/ ForceInactive(1)
    \/ InvokeHandler(1)
    \/ HandlerSettles(1)
    \/ Respond(1)
    \/ Complete(1)

Spec == Init /\ [][Next]_vars

\* notifications about one subscription, as the gateway sends them when its
\* status changes or it is deleted, with the configured token
ReceiveSubscriptionEvent(r) ==
    /\ req[r].pc = "idle"
    /\ \E event \in { "SUBSCRIPTION_UPDATED", "SUBSCRIPTION_DELETED" },
          subscription \in [ id : { "sub_1" }, status : { "ACTIVE", "INACTIVE" } ] :
         Accept(r, webhookSecret, event, NoSnapshot, subscription)

\* the plugin is built without handlers: the webhook only keeps the tables in sync
InitSyncOnly == Init /\ handlers = {}

\* deliveries overlap: every slot runs its own request, one await at a time
NextConcurrent ==
    \E r \in Slots :
        \/ ReceiveSubscriptionEvent(r)
        \/ SyncSubscription(r)
        \/ SyncPayment(r)
        \/ ForceInactive(r)
        \/ InvokeHandler(r)
        \/ Respond(r)
        \/ Complete(r)

SpecConcurrent == InitSyncOnly /\ [][NextConcurrent]_vars


\* ------------------------------------------- the session-gated endpoints
\* what the session-gated endpoints leave alone
webhookSide == << webhookSecret, handlers, req >>
\* what they leave alone of the sign-up side
signUpSide == << user, customers, options, hook, client, http >>

\* faulty variant: the lookup is by gateway id alone
FindOneByAsaasId(table, id, userId) ==
    IF id \in DOMAIN table /\ table[id] # NoRow
    THEN table[id] ELSE NoRow

\* adapter.findOne({model, where:[{asaasId: id}, {userId}]}): the row with that
\* gateway id when it belongs to the user, no record otherwise
FindOne(table, id, userId) ==
    IF id \in DOMAIN table /\ table[id] # NoRow /\ table[id].userId = userId
    THEN table[id] ELSE NoRow

\* adapter.create({model, data}): the table gains the row
AdapterCreate(table, id, row) == [ table EXCEPT ![id] = row ]

\* the mirror table an endpoint works on
TableOf(op) ==
    IF op \in { "cancelSubscription", "subscriptionPayments", "createSubscription" }
    THEN "asaasSubscription" ELSE "asaasPayment"

\* the method of the gateway client an endpoint calls first
GatewayMethod(op) ==
    CASE op = "createSubscription" -> "createSubscription"
      [] op = "cancelSubscription" -> "cancelSubscription"
      [] op = "subscriptionPayments" -> "getSubscriptionPayments"
      [] op = "deletePayment" -> "deletePayment"
      [] op = "pixQrCode" -> "getPixQrCode"
      [] OTHER -> "createPayment"

\* the record of one call of the gateway client
GatewayCall(method, arg, ok) == [ op |-> method, id |-> arg, ok |-> ok ]

\* the record of one store write of an endpoint
StoreCall(kind, model, id, status, ok) ==
    [ kind |-> kind, model |-> model, id |-> id, status |-> status, ok |-> ok ]

\* faulty variant: the days are added to the local calendar date and the local
\* date is what is formatted
TrialEndLocal(now, tz, trialDays) == DateString(((now + tz) \div TicksPerDay) + trialDays)

\* subscription.ts:78-80: d = new Date(); d.setDate(d.getDate() + trialDays);
\* d.toISOString().split("T")[0].  setDate moves the local calendar day and keeps
\* the local time of day (the zone's offset is fixed); toISOString is UTC.
TrialEnd(now, tz, trialDays) ==
    LET localDay == (now + tz) \div TicksPerDay
        localTime == (now + tz) % TicksPerDay
        moved == (localDay + trialDays) * TicksPerDay + localTime
    IN ISODate(moved - tz)

\* subscription.ts:75-82: the nextDueDate sent to the gateway
BillingStartDate(trialDays, nextDueDate, trialEnd) ==
    IF trialDays # 0 THEN trialEnd ELSE nextDueDate

\* subscription.ts:96: status: subscription.status
StoredStatus(reported, trialEndsAt) == reported

\* faulty variant: the body of create-subscription is not looked at
Rejects400CustomerOnly(op, asaasCustomerId, trialDays, nextDueDate) ==
    ~ Truthy(asaasCustomerId)

\* subscription.ts:63-74; customer.ts:118-120, 167-169, 186-188, 254-256: a create
\* request is answered 400 before any gateway call when the session user has no
\* asaasCustomerId, and create-subscription also when the body has neither
\* trialDays nor nextDueDate
Rejects400(op, asaasCustomerId, trialDays, nextDueDate) ==
    \/ ~ Truthy(asaasCustomerId)
    \/ /\ op = "createSubscription"
       /\ trialDays = 0
       /\ ~ Truthy(nextDueDate)

\* a call of an endpoint keyed by a gateway id arrives with a session
\* (subscription.ts:118-120, 164-166; customer.ts:141-142, 217-219)
CallKeyed(op, u, id) ==
    /\ ep.pc = "idle"
    /\ ep' = [ EpIdle EXCEPT !.pc = "find", !.op = op, !.user = u, !.id = id ]
    /\ UNCHANGED << asaasSubscription, asaasPayment, lastWrite >>
    /\ UNCHANGED << webhookSide, signUpSide >>

\* subscription.ts:59-82: create-subscription up to its gateway call
CallCreateSubscription(u, trialDays, nextDueDate, now, tz) ==
    /\ ep.pc = "idle"
    /\ LET call == [ EpIdle EXCEPT !.op = "createSubscription", !.user = u,
                                   !.trialDays = trialDays, !.nextDueDate = nextDueDate ]
           trialEnd == IF trialDays # 0 THEN TrialEnd(now, tz, trialDays) ELSE None
       IN ep' =
            IF Rejects400("createSubscription", user[u], trialDays, nextDueDate)
            THEN [ call EXCEPT !.pc = "done", !.resp = BadRequest400 ]
            ELSE [ call EXCEPT
                     !.pc = "gateway",
                     !.today = IF trialDays # 0 THEN ISODate(now) ELSE None,
                     !.localToday = IF trialDays # 0 THEN LocalDate(now, tz) ELSE None,
                     !.billingStartDate = BillingStartDate(trialDays, nextDueDate, trialEnd),
                     !.trialEndsAt = trialEnd ]
    /\ UNCHANGED << asaasSubscription, asaasPayment, lastWrite >>
    /\ UNCHANGED << webhookSide, signUpSide >>

\* customer.ts:116-121, 165-170, 184-189, 253-257: a create-payment endpoint up
\* to its gateway call
CallCreatePayment(op, u) ==
    /\ ep.pc = "idle"
    /\ ep' = IF Rejects400(op, user[u], 0, None)
             THEN [ EpIdle EXCEPT !.op = op, !.user = u,
                                  !.pc = "done", !.resp = BadRequest400 ]
             ELSE [ EpIdle EXCEPT !.op = op, !.user = u, !.pc = "gateway" ]
    /\ UNCHANGED << asaasSubscription, asaasPayment, lastWrite >>
    /\ UNCHANGED << webhookSide, signUpSide >>

\* the requests a signed-in user may send
Call ==
    /\ ep.pc = "idle"
    /\ \/ \E u \in Users, id \in SubIds :
            \/ CallKeyed("cancelSubscription", u, id)
            \/ CallKeyed("subscriptionPayments", u, id)
       \/ \E u \in Users, id \in PayIds :
            \/ CallKeyed("deletePayment", u, id)
            \/ CallKeyed("pixQrCode", u, id)
       \/ \E u \in Users, body \in { << 0, None >>, << 0, DateString(0) >>, << 1, None >> } :
              CallCreateSubscription(u, body[1], body[2], 0, 0)
       \/ \E u \in Users, op \in PaymentCreateOps : CallCreatePayment(op, u)

\* the ownership check of the keyed endpoints (subscription.ts:123-133, 169-176;
\* customer.ts:145-152, 221-228)
FindRecord ==
    /\ ep.pc = "find"
    /\ \E ok \in BOOLEAN :
         LET table == IF TableOf(ep.op) = "asaasSubscription"
                      THEN asaasSubscription ELSE asaasPayment
             record == FindOne(table, ep.id, ep.user)
         IN ep' = IF ~ ok THEN [ ep EXCEPT !.pc = "done", !.resp = Rejected ]
                  ELSE IF record = NoRow
                  THEN [ ep EXCEPT !.looked = TRUE, !.pc = "done", !.resp = NotFound404 ]
                  ELSE [ ep EXCEPT !.looked = TRUE, !.pc = "gateway" ]
    /\ UNCHANGED << asaasSubscription, asaasPayment, lastWrite >>
    /\ UNCHANGED << webhookSide, signUpSide >>

\* the gateway ids the gateway has not used for a mirrored object yet
FreshIds(op) ==
    IF op = "createSubscription"
    THEN { i \in SubIds : asaasSubscription[i] = NoRow }
    ELSE { i \in PayIds : asaasPayment[i] = NoRow }

\* faulty variant: a cancel or delete that failed at the gateway is swallowed and
\* the row is written all the same
AfterGatewayThrowsBestEffort(op) ==
    IF op \in { "cancelSubscription", "deletePayment" }
    THEN [ pc |-> "write", resp |-> Unanswered ]
    ELSE [ pc |-> "done", resp |-> Rejected ]

\* the gateway call of an endpoint is awaited with no catch (subscription.ts:135,
\* customer.ts:230): when it throws the handler rejects and nothing after it runs
AfterGatewayThrows(op) == [ pc |-> "done", resp |-> Rejected ]

\* the first gateway call of an endpoint (subscription.ts:84-88, 135, 178;
\* customer.ts:123, 154, 172, 191, 230, 259); when it throws the endpoint fails
GatewayAnswers ==
    /\ ep.pc = "gateway"
    /\ \/ \* the call throws
          ep' = [ ep EXCEPT
                    !.gateway = Append(@, GatewayCall(GatewayMethod(ep.op),
                                   IF ep.op \in KeyedOps THEN ep.id ELSE None, FALSE)),
                    !.pc = AfterGatewayThrows(ep.op).pc,
                    !.resp = AfterGatewayThrows(ep.op).resp ]
       \/ \* a keyed call resolves
          /\ ep.op \in KeyedOps
          /\ \E pendingPix \in BOOLEAN :
               ep' = [ ep EXCEPT
                    !.gateway = Append(@, GatewayCall(GatewayMethod(ep.op), ep.id, TRUE)),
                    !.pc = CASE ep.op \in { "cancelSubscription", "deletePayment" } -> "write"
                             [] ep.op = "subscriptionPayments" /\ pendingPix -> "qr"
                             [] OTHER -> "respond" ]
       \/ \* a create call resolves with the object the gateway made
          /\ ep.op \notin KeyedOps
          /\ \E id \in FreshIds(ep.op) :
               ep' = [ ep EXCEPT
                    !.gateway = Append(@, GatewayCall(GatewayMethod(ep.op), None, TRUE)),
                    !.id = id,
                    !.result = IF ep.op = "createSubscription"
                               THEN [ id |-> id, status |-> "ACTIVE",
                                      nextDueDate |-> ep.billingStartDate ]
                               ELSE [ id |-> id, status |-> "PENDING" ],
                    !.pc = "write" ]
    /\ UNCHANGED << asaasSubscription, asaasPayment, lastWrite >>
    /\ UNCHANGED << webhookSide, signUpSide >>

\* the store write of an endpoint (subscription.ts:91-104, 138-142;
\* customer.ts:92-107, 231-235); it is awaited with no catch
StoreWrite ==
    /\ ep.pc = "write"
    /\ \E ok \in BOOLEAN :
         LET kind == IF ep.op \in KeyedOps THEN "update" ELSE "create"
             status == CASE ep.op = "cancelSubscription" -> "INACTIVE"
                         [] ep.op = "deletePayment" -> "DELETED"
                         [] ep.op = "createSubscription" ->
                                StoredStatus(ep.result.status, ep.trialEndsAt)
                         [] OTHER -> ep.result.status
             next == CASE ~ ok -> "done"
                       [] ep.op = "createPixPayment" -> "qr"
                       [] OTHER -> "respond"
         IN /\ ep' = [ ep EXCEPT
                         !.writes = Append(@, StoreCall(kind, TableOf(ep.op), ep.id, status, ok)),
                         !.pc = next,
                         !.resp = IF ok THEN Unanswered ELSE Rejected ]
            /\ asaasSubscription' =
                 CASE ~ ok -> asaasSubscription
                   [] ep.op = "cancelSubscription" ->
                        AdapterUpdate(asaasSubscription, ep.id, status)
                   [] ep.op = "createSubscription" ->
                        AdapterCreate(asaasSubscription, ep.id,
                            [ userId |-> ep.user, status |-> status,
                              nextDueDate |-> ep.result.nextDueDate,
                              trialEndsAt |-> ep.trialEndsAt ])
                   [] OTHER -> asaasSubscription
            /\ asaasPayment' =
                 CASE ~ ok -> asaasPayment
                   [] ep.op = "deletePayment" -> AdapterUpdate(asaasPayment, ep.id, status)
                   [] ep.op \in PaymentCreateOps ->
                        AdapterCreate(asaasPayment, ep.id,
                            [ userId |-> ep.user, status |-> status ])
                   [] OTHER -> asaasPayment
            /\ lastWrite' =
                 IF ok /\ TableOf(ep.op) = "asaasSubscription"
                 THEN [ lastWrite EXCEPT ![ep.id] = status ] ELSE lastWrite
    /\ UNCHANGED << webhookSide, signUpSide >>

\* the QR fetch after the first gateway call (subscription.ts:181-189,
\* customer.ts:127); when it throws the endpoint fails
QrFetch ==
    /\ ep.pc = "qr"
    /\ \E ok \in BOOLEAN :
         ep' = [ ep EXCEPT
                   !.gateway = Append(@, GatewayCall("getPixQrCode", ep.id, ok)),
                   !.pc = IF ok THEN "respond" ELSE "done",
                   !.resp = IF ok THEN Unanswered ELSE Rejected ]
    /\ UNCHANGED << asaasSubscription, asaasPayment, lastWrite >>
    /\ UNCHANGED << webhookSide, signUpSide >>

\* the 200 answer (subscription.ts:106, 144, 191; customer.ts:129, 155, 174, 237)
Answer ==
    /\ ep.pc = "respond"
    /\ ep' = [ ep EXCEPT
                 !.pc = "done", !.resp = Ok200,
                 !.body = IF ep.op = "createSubscription"
                          THEN [ subscription |-> ep.result, trialEndsAt |-> ep.trialEndsAt ]
                          ELSE NoRow ]
    /\ UNCHANGED << asaasSubscription, asaasPayment, lastWrite >>
    /\ UNCHANGED << webhookSide, signUpSide >>

\* the answer has been sent and the call is gone
Finish ==
    /\ ep.pc = "done"
    /\ ep' = EpIdle
    /\ UNCHANGED << asaasSubscription, asaasPayment, lastWrite >>
    /\ UNCHANGED << webhookSide, signUpSide >>

\* notifications about the mirrored objects, as the gateway sends them while
\* the endpoints are in use, with the configured token
ReceiveMirrorEvent(r) ==
    /\ req[r].pc = "idle"
    /\ \E event \in { "SUBSCRIPTION_UPDATED", "SUBSCRIPTION_DELETED", "PAYMENT_CONFIRMED" } :
         \E subscription \in IF event = "PAYMENT_CONFIRMED" THEN { NoSnapshot }
                             ELSE [ id : SubIds, status : { "EXPIRED" } ],
            payment \in IF event # "PAYMENT_CONFIRMED" THEN { NoSnapshot }
                        ELSE [ id : PayIds, status : { "RECEIVED" },
                               billingType : { "BOLETO" }, dueDate : { None } ] :
           Accept(r, webhookSecret, event, payment, subscription)

\* the endpoints are in use by signed-in users, one call at a time, while
\* notifications arrive
NextEndpoints ==
    \/ Call
    \/ FindRecord
    \/ GatewayAnswers
    \/ StoreWrite
    \/ QrFetch
    \/ Answer
    \/ Finish
    \/ ReceiveMirrorEvent(1)
    \/ SyncSubscription(1)
    \/ SyncPayment(1)
    \/ ForceInactive(1)
    \/ InvokeHandler(1)
    \/ Respond(1)
    \/ Complete(1)

\* the plugin is built with a webhook secret and without handlers
InitEndpoints == InitSyncOnly /\ webhookSecret = "whsec_a"

SpecEndpoints == InitEndpoints /\ [][NextEndpoints]_vars

\* create-subscription requests at any instant of the clock, in any time zone,
\* with or without a trial and with or without a nextDueDate
CallWithTrial ==
    /\ ep.pc = "idle"
    /\ \E u \in Users, trialDays \in 0 .. MaxTrialDays,
          nextDueDate \in { None, DateString(0) }, tz \in TZOffsets :
         \E now \in IF trialDays # 0 THEN Instants ELSE { 0 } :
           CallCreateSubscription(u, trialDays, nextDueDate, now, tz)

NextTrial ==
    \/ CallWithTrial
    \/ GatewayAnswers
    \/ StoreWrite
    \/ Answer
    \/ Finish

SpecTrial == InitSyncOnly /\ [][NextTrial]_vars

\* the states the gateway reports for a subscription (AsaasSubscription.status,
\* unnamed/part_000:139)
GatewaySubscriptionStatuses == { "ACTIVE", "INACTIVE", "EXPIRED" }

\* the status of an embedded subscription snapshot is a string
\* (AsaasSubscriptionWebhookData.status, unnamed/part_001:47) and the body of a
\* notification is not validated (webhook.ts:24-27): the states the gateway
\* reports and one other string
SnapshotStatuses == GatewaySubscriptionStatuses \cup { "OVERDUE" }

\* notifications about a subscription with any status string, with the
\* configured token or without a header
ReceiveSubscriptionStatus(r) ==
    /\ req[r].pc = "idle"
    /\ \E event \in { "SUBSCRIPTION_UPDATED", "SUBSCRIPTION_DELETED" },
          token \in { None, webhookSecret },
          subscription \in [ id : SubIds, status : SnapshotStatuses ] :
         Accept(r, token, event, NoSnapshot, subscription)

\* create-subscription and cancel-subscription requests
CallSubscription ==
    /\ ep.pc = "idle"
    /\ \/ \E u \in Users, id \in SubIds : CallKeyed("cancelSubscription", u, id)
       \/ \E u \in Users, body \in { << 0, DateString(0) >>, << 1, None >> } :
              CallCreateSubscription(u, body[1], body[2], 0, 0)

\* subscriptions are created and canceled by signed-in users while notifications
\* about them arrive
NextStatus ==
    \/ CallSubscription
    \/ FindRecord
    \/ GatewayAnswers
    \/ StoreWrite
    \/ Answer
    \/ Finish
    \/ ReceiveSubscriptionStatus(1)
    \/ SyncSubscription(1)
    \/ SyncPayment(1)
    \/ ForceInactive(1)
    \/ InvokeHandler(1)
    \/ Respond(1)
    \/ Complete(1)

SpecStatus == InitSyncOnly /\ [][NextStatus]_vars

\* ------------------------------------------------------- the sign-up hook
\* what the sign-up hook leaves alone
mirrorSide == << webhookSecret, handlers, asaasSubscription, asaasPayment, lastWrite,
                 req, ep, client, http >>

\* faulty variant: no lookup, the customer is always created
ExistingNone(gatewayCustomers, userId) == {}

\* client.listCustomers({externalReference: newUser.id, limit: 1}).data
\* (plugin.ts:57): the gateway's customers tagged with the user id
Existing(gatewayCustomers, userId) ==
    { c \in DOMAIN gatewayCustomers : gatewayCustomers[c] = userId }

\* faulty variant: no try around the provisioning, what an awaited call throws
\* rejects the hook
HookTryWithoutCatch(throws) ==
    [ logged |-> 0, failed |-> throws ]

\* plugin.ts:53, 84-86: the try around the provisioning; what an awaited call
\* throws is caught and logged, and the hook returns
HookTryCatch(throws) ==
    [ logged |-> IF throws THEN 1 ELSE 0, failed |-> FALSE ]

\* plugin.ts:44-51: the hook runs after /sign-up/email; it returns at once when
\* automatic creation is disabled or the sign-up produced no user
SignUp(r, newUser) ==
    /\ hook[r].pc = "idle"
    /\ hook' = [ hook EXCEPT ![r] =
                   [ HookIdle EXCEPT
                       !.newUser = newUser,
                       !.pc = IF options.disableAutoCreateCustomer \/ ~ Truthy(newUser)
                              THEN "done" ELSE "list" ] ]
    /\ UNCHANGED << user, customers, options, mirrorSide >>

\* plugin.ts:57-62: the lookup by externalReference; an existing customer is
\* reused.  What the call throws is caught and logged (plugin.ts:84-86).
ListCustomers(r) ==
    /\ hook[r].pc = "list"
    /\ LET h == hook[r]
           data == Existing(customers, h.newUser)
       IN \/ hook' = [ hook EXCEPT ![r] =
                 [ h EXCEPT !.gateway = Append(@, GatewayCall("listCustomers", h.newUser, FALSE)),
                            !.failures = @ + 1,
                            !.logged = @ + HookTryCatch(TRUE).logged,
                            !.failed = HookTryCatch(TRUE).failed,
                            !.pc = "done" ] ]
          \/ /\ data = {}
             /\ hook' = [ hook EXCEPT ![r] =
                 [ h EXCEPT !.gateway = Append(@, GatewayCall("listCustomers", h.newUser, TRUE)),
                            !.pc = "create" ] ]
          \/ \E first \in data :
               hook' = [ hook EXCEPT ![r] =
                 [ h EXCEPT !.gateway = Append(@, GatewayCall("listCustomers", h.newUser, TRUE)),
                            !.customerId = first, !.pc = "update" ] ]
    /\ UNCHANGED << user, customers, options, mirrorSide >>

\* plugin.ts:64-74: no customer was found, one is created.  The call resolves
\* with the new customer, or throws, in which case the gateway may or may not
\* have made the customer.
CreateCustomer(r) ==
    /\ hook[r].pc = "create"
    /\ LET h == hook[r]
           failed == [ h EXCEPT
                         !.gateway = Append(@, GatewayCall("createCustomer", h.newUser, FALSE)),
                         !.failures = @ + 1,
                         !.logged = @ + HookTryCatch(TRUE).logged,
                         !.failed = HookTryCatch(TRUE).failed,
                         !.pc = "done" ]
       IN \/ /\ hook' = [ hook EXCEPT ![r] = failed ]
             /\ UNCHANGED customers
          \/ \E c \in { c \in CustomerIds : customers[c] = None } :
               /\ customers' = [ customers EXCEPT ![c] = h.newUser ]
               /\ \/ hook' = [ hook EXCEPT ![r] = failed ]
                  \/ hook' = [ hook EXCEPT ![r] =
                       [ h EXCEPT
                           !.gateway = Append(@, GatewayCall("createCustomer", h.newUser, TRUE)),
                           !.customerId = c, !.pc = "update" ] ]
    /\ UNCHANGED << user, options, mirrorSide >>

\* plugin.ts:77-81: the customer id is written to the user row
UpdateUser(r) ==
    /\ hook[r].pc = "update"
    /\ LET h == hook[r]
       IN \E ok \in BOOLEAN :
            /\ user' = IF ok THEN [ user EXCEPT ![h.newUser] = h.customerId ] ELSE user
            /\ hook' = [ hook EXCEPT ![r] =
                 [ h EXCEPT !.wrote = IF ok THEN h.customerId ELSE None,
                            !.failures = IF ok THEN @ ELSE @ + 1,
                            !.logged = @ + HookTryCatch(~ ok).logged,
                            !.failed = HookTryCatch(~ ok).failed,
                            !.pc = IF ok THEN "callback" ELSE "done" ] ]
    /\ UNCHANGED << customers, options, mirrorSide >>

\* plugin.ts:83-86: options.onCustomerCreated?.(customerId, newUser.id); what it
\* throws is caught and logged
Callback(r) ==
    /\ hook[r].pc = "callback"
    /\ \E throws \in IF options.onCustomerCreated THEN BOOLEAN ELSE { FALSE } :
         hook' = [ hook EXCEPT ![r] =
                     [ hook[r] EXCEPT !.called = options.onCustomerCreated,
                                      !.failures = IF throws THEN @ + 1 ELSE @,
                                      !.logged = @ + HookTryCatch(throws).logged,
                                      !.failed = HookTryCatch(throws).failed,
                                      !.pc = "done" ] ]
    /\ UNCHANGED << user, customers, options, mirrorSide >>

\* the hook has returned
HookReturns(r) ==
    /\ hook[r].pc = "done"
    /\ hook' = [ hook EXCEPT ![r] = HookIdle ]
    /\ UNCHANGED << user, customers, options, mirrorSide >>

\* the application starts with any setting of the two options; user_1 has a
\* gateway customer that its row may have lost (a re-seed), user_2 has none
InitSignUp ==
    /\ webhookSecret = None
    /\ handlers = {}
    /\ asaasSubscription = [ i \in SubIds |-> NoRow ]
    /\ asaasPayment = [ i \in PayIds |-> NoRow ]
    /\ lastWrite = [ i \in SubIds |-> None ]
    /\ req = [ r \in Slots |-> Idle ]
    /\ user \in [ Users -> { None, "cus_1" } ]
    /\ user["user_2"] = None
    /\ customers = [ c \in CustomerIds |-> IF c = "cus_1" THEN "user_1" ELSE None ]
    /\ options \in [ disableAutoCreateCustomer : BOOLEAN, onCustomerCreated : BOOLEAN ]
    /\ ep = EpIdle
    /\ hook = [ r \in Slots |-> HookIdle ]
    /\ client = [ apiKey |-> "key_a", userAgent |-> UserAgentOf(None) ]
    /\ http = HttpIdle

\* sign-ups one after the other: a run of the hook completes before the next
\* starts
NextSignUp ==
    \/ \E newUser \in Users \cup { None } : SignUp(1, newUser)
    \/ ListCustomers(1)
    \/ CreateCustomer(1)
    \/ UpdateUser(1)
    \/ Callback(1)
    \/ HookReturns(1)

SpecSignUp == InitSignUp /\ [][NextSignUp]_vars

\* sign-up requests overlap: every slot runs the hook on its own, one await at
\* a time
NextSignUpConcurrent ==
    \E r \in Slots :
        \/ \E newUser \in Users \cup { None } : SignUp(r, newUser)
        \/ ListCustomers(r)
        \/ CreateCustomer(r)
        \/ UpdateUser(r)
        \/ Callback(r)
        \/ HookReturns(r)

SpecSignUpConcurrent == InitSignUp /\ [][NextSignUpConcurrent]_vars

\* ------------------------------------------------------ the gateway client
\* what the gateway client leaves alone
pluginSide == << webhookSecret, handlers, asaasSubscription, asaasPayment, lastWrite,
                 req, user, customers, options, ep, hook >>

\* the public operations of AsaasClient (unnamed/part_000:235-348)
ClientOps ==
    { "createCustomer", "getCustomer", "createSubscription", "cancelSubscription",
      "getSubscription", "getSubscriptionPayments", "listCustomers", "deleteCustomer",
      "createPayment", "getPayment", "listPayments", "deletePayment", "getPixQrCode" }

\* the init.method an operation hands to request; fetch sends GET when there is
\* none
HttpMethod(op) ==
    CASE op \in { "createCustomer", "createSubscription", "createPayment" } -> "POST"
      [] op \in { "cancelSubscription", "deleteCustomer", "deletePayment" } -> "DELETE"
      [] OTHER -> "GET"

\* header names as a caller of request may write them
RawHeaderNames == { "access_token", "Access_Token", "User-Agent", "X-Request-Id" }

\* a Headers object keeps a name in lower case
Lower(name) ==
    CASE name = "Access_Token" -> "access_token"
      [] name = "User-Agent" -> "user-agent"
      [] name = "X-Request-Id" -> "x-request-id"
      [] name = "Content-Type" -> "content-type"
      [] OTHER -> name

\* the init.headers a caller of request may give: pairs of a name and a value,
\* no two of them with the same name
CallerHeaders ==
    { hs \in SUBSET (RawHeaderNames \X { "from the caller" }) :
        \A g, h \in hs : Lower(g[1]) = Lower(h[1]) => g = h }

\* unnamed/part_000:217-223: the headers handed to fetch.  The three fixed
\* headers are set first; every header of init.headers is set after them, under
\* its lower-case name.
BuildHeaders(c, initHeaders) ==
    LET fixed == [ n \in HeaderNames |->
                     CASE n = Lower("Content-Type") -> "application/json"
                       [] n = Lower("User-Agent") -> c.userAgent
                       [] n = Lower("access_token") -> c.apiKey
                       [] OTHER -> None ]
    IN [ n \in HeaderNames |->
           IF \E h \in initHeaders : Lower(h[1]) = n
           THEN (CHOOSE h \in initHeaders : Lower(h[1]) = n)[2]
           ELSE fixed[n] ]

\* the HTTP statuses and bodies the gateway answers with
Statuses == { 200, 204, 299, 300, 404, 500 }
Bodies == { "{\"id\":\"cus_1\"}", "{\"errors\":[]}", "" }

\* nothing was returned
NoValue == [ absent |-> TRUE ]

\* faulty variant: only client and server errors are turned into an error
ResOkBelow400(status) == status < 400

\* Response.ok: the status is in the range 200-299
ResOk(status) == status >= 200 /\ status <= 299

\* unnamed/part_000:229: `Asaas API error ${res.status}: ${body}`
ErrorMessage(status, body) == "Asaas API error " \o ToString(status) \o ": " \o body

\* res.json(): the value the body parses to; a body that is no JSON document
\* throws a SyntaxError
IsJson(body) == body # ""
JsonParse(body) ==
    CASE body = "{\"id\":\"cus_1\"}" -> [ id |-> "cus_1" ]
      [] body = "{\"errors\":[]}" -> [ errors |-> << >> ]
      [] OTHER -> NoValue

\* unnamed/part_000:211-225: request(path, init) builds the headers and calls
\* fetch
Request(op, initHeaders) ==
    /\ http.pc = "idle"
    /\ http' = [ HttpIdle EXCEPT
                   !.pc = "fetch", !.op = op, !.method = HttpMethod(op),
                   !.initHeaders = initHeaders,
                   !.headers = BuildHeaders(client, initHeaders) ]
    /\ UNCHANGED << client, pluginSide >>

\* a public operation is called: none of them puts headers in its init
\* (unnamed/part_000:235-348)
CallOperation == \E op \in ClientOps : Request(op, {})

\* request is called with headers in its init
CallRequest == \E op \in ClientOps, initHeaders \in CallerHeaders : Request(op, initHeaders)

\* unnamed/part_000:225-233: fetch resolves with a response, or rejects when
\* there is none; a response that is not ok is thrown as an error with its
\* status and body, an ok one is parsed and returned
FetchSettles ==
    /\ http.pc = "fetch"
    /\ \/ http' = [ http EXCEPT !.pc = "done", !.error = "fetch failed" ]
       \/ \E status \in Statuses, body \in Bodies :
            http' = [ http EXCEPT
                        !.pc = "done", !.status = status, !.body = body,
                        !.error = CASE ~ ResOk(status) -> ErrorMessage(status, body)
                                    [] ~ IsJson(body) -> "SyntaxError"
                                    [] OTHER -> None,
                        !.value = IF ResOk(status) /\ IsJson(body)
                                  THEN JsonParse(body) ELSE NoValue ]
    /\ UNCHANGED << client, pluginSide >>

\* the call has returned or thrown
ClientReturns ==
    /\ http.pc = "done"
    /\ http' = HttpIdle
    /\ UNCHANGED << client, pluginSide >>

\* the client is built with any API key, with or without a userAgent option
\* (unnamed/part_000:205-209)
InitClient ==
    /\ webhookSecret = None
    /\ handlers = {}
    /\ asaasSubscription = [ i \in SubIds |-> NoRow ]
    /\ asaasPayment = [ i \in PayIds |-> NoRow ]
    /\ lastWrite = [ i \in SubIds |-> None ]
    /\ req = [ r \in Slots |-> Idle ]
    /\ user = [ u \in Users |-> None ]
    /\ customers = [ c \in CustomerIds |-> None ]
    /\ options = [ disableAutoCreateCustomer |-> FALSE, onCustomerCreated |-> FALSE ]
    /\ ep = EpIdle
    /\ hook = [ r \in Slots |-> HookIdle ]
    /\ \E apiKey \in { "key_a", "key_b" }, userAgent \in { None, "my-app" } :
         client = [ apiKey |-> apiKey, userAgent |-> UserAgentOf(userAgent) ]
    /\ http = HttpIdle

NextClient ==
    \/ CallOperation
    \/ CallRequest
    \/ FetchSettles
    \/ ClientReturns

SpecClient == InitClient /\ [][NextClient]_vars

\* ---------------------------------------------------------------- claims
\* the notification in slot r passed line 16-22
InFlight(r) == req[r].pc # "idle"
\* the header of the notification in slot r is absent or differs from the secret
BadToken(r) ==
    /\ webhookSecret # None
    /\ (req[r].token = None \/ req[r].token # webhookSecret)
PassedSecretCheck(r) == InFlight(r) /\ ~ BadToken(r)
Tables == << asaasSubscription, asaasPayment >>

\* C1: with a webhookSecret configured, a request whose asaas-access-token header
\* is absent or differs from the secret is answered 401 Unauthorized and has no
\* side effect: it issues no store update, invokes no handler, makes no gateway
\* call, and the step that answers it leaves both mirror tables as they were.
C1_UnauthorizedNoSideEffect ==
    /\ [](\A r \in Slots :
            (InFlight(r) /\ BadToken(r)) =>
               /\ req[r].pc = "done"
               /\ req[r].resp = Unauthorized401
               /\ req[r].updates = << >>
               /\ req[r].calls = << >>
               /\ req[r].slots = << >>
               /\ req[r].gateway = << >>)
    /\ [][\A r \in Slots :
            (req[r].pc = "idle" /\ req'[r].pc # "idle" /\ webhookSecret # None
               /\ (req'[r].token = None \/ req'[r].token # webhookSecret))
            => Tables' = Tables]_vars

\* a request with a wrong (not merely absent) token has been answered 401
C1_Witness ==
    \E r \in Slots :
        /\ req[r].token = "whsec_b"
        /\ webhookSecret = "whsec_a"
        /\ req[r].resp = Unauthorized401

\* C2: when the dispatched handler of a notification that passed the secret check
\* throws, the error is caught and logged, the response is still received:true,
\* and the steps from the throw to the response leave the mirror tables (and so
\* the updates this notification made) as they are.
C2_HandlerErrorAbsorbed ==
    /\ [](\A r \in Slots :
            (PassedSecretCheck(r) /\ req[r].threw) =>
               /\ req[r].logged = 1
               /\ req[r].resp # Rejected
               /\ req[r].pc \in { "respond", "done" }
               /\ (req[r].pc = "done" => req[r].resp = Received))
    /\ [][\A r \in Slots :
            (req'[r].threw /\ req'[r] # req[r]) => Tables' = Tables]_vars

\* a handler threw after this notification had updated a mirror row, the row
\* still holds the update and the notification was acknowledged
C2_Witness ==
    \E r \in Slots :
        /\ req[r].threw
        /\ req[r].resp = Received
        /\ req[r].subscription # NoSnapshot
        /\ req[r].subscription.id = "sub_1"
        /\ req[r].subscription.status = "INACTIVE"
        /\ req[r].updates # << >>
        /\ req[r].updates[1].ok
        /\ asaasSubscription["sub_1"].status = "INACTIVE"

\* C3 (as claimed): every notification that passes the secret check ends with
\* received:true; no failure of a store update, of the QR fetch or of a handler
\* makes the endpoint fail.
C3_AlwaysAcknowledged ==
    \A r \in Slots :
        (PassedSecretCheck(r) /\ req[r].pc = "done") => req[r].resp = Received

\* the switch of the notification in slot r has run and nothing it awaited
\* escaped the try
Dispatched(r) ==
    \/ req[r].pc = "respond"
    \/ req[r].pc = "done" /\ req[r].resp = Received
\* the notification in slot r has been processed to its acknowledgment
Processed(r) == req[r].pc = "done" /\ req[r].resp = Received
HasIdAndStatus(snapshot) ==
    /\ snapshot # NoSnapshot
    /\ snapshot.id # None
    /\ snapshot.status # None
LastOf(seq) == seq[Len(seq)]

\* C4: once a SUBSCRIPTION_DELETED notification whose subscription snapshot has
\* an id has been processed (one notification at a time), its last store call is
\* the forced update of that gateway id to INACTIVE, and when that update went
\* through the row of that id has status INACTIVE, whether the snapshot has a
\* status or not; when the forced update failed the notification is still
\* acknowledged and onSubscriptionCanceled is still the slot invoked.
C4_DeletedForcesInactive ==
    \A r \in Slots :
        LET q == req[r] IN
        (/\ q.event = "SUBSCRIPTION_DELETED"
         /\ q.subscription # NoSnapshot
         /\ q.subscription.id # None) =>
          /\ Processed(r) =>
               /\ q.updates # << >>
               /\ LastOf(q.updates).by = "force"
               /\ LastOf(q.updates).model = "asaasSubscription"
               /\ LastOf(q.updates).id = q.subscription.id
               /\ LastOf(q.updates).status = "INACTIVE"
               /\ (LastOf(q.updates).ok /\ asaasSubscription[q.subscription.id] # NoRow)
                     => asaasSubscription[q.subscription.id].status = "INACTIVE"
               /\ q.slots = << "onSubscriptionCanceled" >>
               /\ "onSubscriptionCanceled" \in handlers =>
                     (Len(q.calls) = 1 /\ q.calls[1].slot = "onSubscriptionCanceled")
          /\ (q.pc = "done" /\ q.updates # << >> /\ LastOf(q.updates).by = "force"
                /\ ~ LastOf(q.updates).ok) => q.resp = Received

\* a SUBSCRIPTION_DELETED notification without status has been processed and the
\* row, ACTIVE until then, is INACTIVE
C4_Witness ==
    \E r \in Slots :
        /\ Processed(r)
        /\ req[r].event = "SUBSCRIPTION_DELETED"
        /\ req[r].subscription # NoSnapshot
        /\ req[r].subscription.id = "sub_1"
        /\ req[r].subscription.status = None
        /\ req[r].updates # << >>
        /\ LastOf(req[r].updates).ok
        /\ asaasSubscription["sub_1"].status = "INACTIVE"
        /\ Len(req[r].calls) = 1

\* C5: a dispatched PAYMENT_OVERDUE notification goes to onPaymentDue exactly when
\* it has a payment snapshot whose dueDate is the date the clock showed, and to
\* onPaymentOverdue in every other case (another date, no dueDate, no payment
\* snapshot); the registered handler of that slot, and no other, is invoked.
C5_OverdueRouting ==
    \A r \in Slots :
        LET q == req[r]
            dueToday == /\ q.payment # NoSnapshot
                        /\ q.today \in Dates
                        /\ q.payment.dueDate = q.today
        IN (q.event = "PAYMENT_OVERDUE" /\ Dispatched(r)) =>
             /\ q.payment # NoSnapshot => q.today \in Dates
             /\ q.slots = IF dueToday THEN << "onPaymentDue" >>
                                      ELSE << "onPaymentOverdue" >>
             /\ \A i \in 1 .. Len(q.calls) :
                    q.calls[i].slot = IF dueToday THEN "onPaymentDue"
                                                  ELSE "onPaymentOverdue"
             /\ handlers = AsaasEventHandlers => Len(q.calls) = 1

\* a PAYMENT_OVERDUE notification due on the day the clock showed has invoked
\* onPaymentDue
C5_Witness ==
    \E r \in Slots :
        /\ Dispatched(r)
        /\ req[r].event = "PAYMENT_OVERDUE"
        /\ req[r].payment # NoSnapshot
        /\ req[r].payment.dueDate = req[r].today
        /\ Len(req[r].calls) = 1
        /\ req[r].calls[1].slot = "onPaymentDue"

\* C6: a notification resolves at most one slot and invokes at most one handler,
\* at most once, and only the handler of the resolved slot; a dispatched
\* notification has resolved exactly one slot, and the generic sync of each
\* snapshot that has an id and a status ran whichever slot that is.
C6_ExactlyOneCategory ==
    \A r \in Slots :
        LET q == req[r] IN
        /\ Len(q.slots) <= 1
        /\ Len(q.calls) <= 1
        /\ \A i \in 1 .. Len(q.calls) : q.slots # << >> /\ q.calls[i].slot = q.slots[1]
        /\ Dispatched(r) =>
             /\ Len(q.slots) = 1
             /\ HasIdAndStatus(q.subscription) =>
                  \E i \in 1 .. Len(q.updates) :
                      q.updates[i].by = "sync" /\ q.updates[i].model = "asaasSubscription"
             /\ HasIdAndStatus(q.payment) =>
                  \E i \in 1 .. Len(q.updates) :
                      q.updates[i].by = "sync" /\ q.updates[i].model = "asaasPayment"

\* a notification with both snapshots has synced both rows and invoked one handler
C6_Witness ==
    \E r \in Slots :
        /\ Processed(r)
        /\ Len(req[r].calls) = 1
        /\ Len(req[r].updates) = 2
        /\ req[r].event = "PAYMENT_CONFIRMED"

\* the generic sync of the notification in slot r issued an update of `model`
SyncIssued(r, model) ==
    \E i \in 1 .. Len(req[r].updates) :
        /\ req[r].updates[i].by = "sync"
        /\ req[r].updates[i].model = model

\* C7 (as claimed): for every notification that passed the secret check, whatever
\* its event code and the handlers registered, by the time its request ends the
\* generic sync has issued a status overwrite of the subscription (respectively
\* payment) row keyed by the snapshot's id and carrying the reported status if and
\* only if that snapshot is present with both an id and a status.
C7_SyncIffIdAndStatus ==
    \A r \in Slots :
        LET q == req[r] IN
        (PassedSecretCheck(r) /\ q.pc = "done") =>
          /\ SyncIssued(r, "asaasSubscription") <=> HasIdAndStatus(q.subscription)
          /\ SyncIssued(r, "asaasPayment") <=> HasIdAndStatus(q.payment)
          /\ \A i \in 1 .. Len(q.updates) :
               q.updates[i].by = "sync" =>
                 LET snapshot == IF q.updates[i].model = "asaasSubscription"
                                 THEN q.subscription ELSE q.payment
                 IN /\ q.updates[i].id = snapshot.id
                    /\ q.updates[i].status = snapshot.status

\* C8 (as claimed): a notification that passed the secret check and whose payment
\* snapshot names a gateway payment id with no mirror row is processed to
\* completion: its request ends acknowledged with received:true, with one slot
\* dispatched, and the payment table still has no row for that id.
C8_MissingPaymentRowTolerated ==
    \A r \in Slots :
        LET q == req[r] IN
        (/\ PassedSecretCheck(r)
         /\ q.pc = "done"
         /\ q.payment # NoSnapshot
         /\ q.payment.id = "pay_2") =>
          /\ asaasPayment["pay_2"] = NoRow
          /\ q.resp = Received
          /\ Len(q.slots) = 1

\* C9: for a dispatched PAYMENT_CREATED or PAYMENT_DUE_DATE_REMINDER notification
\* whose payment snapshot has billingType PIX and an id, getPixQrCode was called
\* once for that id, the registered handler of the slot (onPaymentCreated,
\* respectively onPaymentDueSoon) was invoked whether the call succeeded or
\* threw, and its payload has pixQrCode exactly when the call succeeded.
C9_PixQrCodeIffFetched ==
    \A r \in Slots :
        LET q == req[r]
            slot == IF q.event = "PAYMENT_CREATED" THEN "onPaymentCreated"
                                                   ELSE "onPaymentDueSoon"
        IN (/\ q.event \in { "PAYMENT_CREATED", "PAYMENT_DUE_DATE_REMINDER" }
            /\ Dispatched(r)
            /\ q.payment # NoSnapshot
            /\ q.payment.billingType = "PIX"
            /\ q.payment.id # None) =>
             /\ Len(q.gateway) = 1
             /\ q.gateway[1].op = "getPixQrCode"
             /\ q.gateway[1].id = q.payment.id
             /\ slot \in handlers =>
                  /\ Len(q.calls) = 1
                  /\ q.calls[1].slot = slot
                  /\ q.calls[1].payload.pixQrCode # None <=> q.gateway[1].ok

\* the QR fetch of a PIX reminder threw and onPaymentDueSoon was invoked without
\* pixQrCode
C9_Witness ==
    \E r \in Slots :
        /\ Dispatched(r)
        /\ req[r].event = "PAYMENT_DUE_DATE_REMINDER"
        /\ Len(req[r].gateway) = 1
        /\ ~ req[r].gateway[1].ok
        /\ Len(req[r].calls) = 1
        /\ req[r].calls[1].slot = "onPaymentDueSoon"
        /\ req[r].calls[1].payload.pixQrCode = None

\* C10: last write wins.  The status of a subscription row is the status carried
\* by the last update of its gateway id that went through, whatever the row held
\* before and however the requests of the notifications overlap: no update is
\* rejected, skipped or reordered because of the row's current status.
C10_LastWriteWins ==
    \A i \in SubIds :
        asaasSubscription[i] # NoRow => asaasSubscription[i].status = lastWrite[i]

\* two notifications for sub_1, one reporting ACTIVE and one reporting INACTIVE,
\* have both updated the row and completed, and the row, INACTIVE in between,
\* holds ACTIVE: the ACTIVE update was applied last
C10_Witness ==
    \E a \in Slots, b \in Slots :
        /\ Processed(a) /\ Processed(b)
        /\ req[a].event = "SUBSCRIPTION_UPDATED" /\ req[b].event = "SUBSCRIPTION_UPDATED"
        /\ req[a].subscription.status = "ACTIVE" /\ req[a].updates[1].ok
        /\ req[b].subscription.status = "INACTIVE" /\ req[b].updates[1].ok
        /\ lastWrite["sub_1"] = "ACTIVE"
        /\ asaasSubscription["sub_1"].status = "ACTIVE"

\* the handler each event code other than PAYMENT_OVERDUE is documented to reach
C11_HandlerOf(event) ==
    CASE event = "PAYMENT_CREATED" -> "onPaymentCreated"
      [] event = "PAYMENT_DUE_DATE_REMINDER" -> "onPaymentDueSoon"
      [] event = "PAYMENT_CONFIRMED" -> "onPaymentConfirmed"
      [] event = "PAYMENT_RECEIVED" -> "onPaymentConfirmed"
      [] event = "PAYMENT_REFUNDED" -> "onPaymentRefunded"
      [] event = "PAYMENT_PARTIALLY_REFUNDED" -> "onPaymentRefunded"
      [] event = "PAYMENT_CHARGEBACK_REQUESTED" -> "onPaymentChargeback"
      [] event = "PAYMENT_CHARGEBACK_DISPUTE" -> "onPaymentChargeback"
      [] event = "PAYMENT_AWAITING_CHARGEBACK_REVERSAL" -> "onPaymentChargeback"
      [] event = "SUBSCRIPTION_CREATED" -> "onSubscriptionCreated"
      [] event = "SUBSCRIPTION_RENEWED" -> "onSubscriptionRenewed"
      [] event = "SUBSCRIPTION_DELETED" -> "onSubscriptionCanceled"
      [] OTHER -> None

\* C11: the event code determines the handler.  For each of the twelve codes
\* PAYMENT_CREATED, PAYMENT_DUE_DATE_REMINDER, PAYMENT_CONFIRMED, PAYMENT_RECEIVED,
\* PAYMENT_REFUNDED, PAYMENT_PARTIALLY_REFUNDED, the three chargeback codes,
\* SUBSCRIPTION_CREATED, SUBSCRIPTION_RENEWED and SUBSCRIPTION_DELETED, the slot
\* the switch reaches is the documented one, no handler of another slot is ever
\* invoked, none is invoked twice, and a dispatched notification has invoked the
\* documented handler when it is registered.
C11_EventDeterminesHandler ==
    \A r \in Slots :
        LET q == req[r] IN
        C11_HandlerOf(q.event) # None =>
          /\ Len(q.calls) <= 1
          /\ \A i \in 1 .. Len(q.calls) : q.calls[i].slot = C11_HandlerOf(q.event)
          /\ q.slots # << >> => q.slots = << C11_HandlerOf(q.event) >>
          /\ Dispatched(r) =>
               /\ q.slots # << >>
               /\ C11_HandlerOf(q.event) \in handlers => Len(q.calls) = 1

\* a PAYMENT_RECEIVED notification has been processed and onPaymentConfirmed was
\* the handler invoked
C11_Witness ==
    \E r \in Slots :
        /\ Processed(r)
        /\ req[r].event = "PAYMENT_RECEIVED"
        /\ Len(req[r].calls) = 1
        /\ req[r].calls[1].slot = "onPaymentConfirmed"

\* C12 (as claimed): every notification that passed the secret check and whose
\* event code is outside the recognized set has, when its request ends, reached
\* the onOtherEvent slot and invoked onOtherEvent (when registered) and no other
\* handler, logged no error unless the handler itself threw, and been
\* acknowledged with received:true.
C12_OtherEventsFallBack ==
    \A r \in Slots :
        LET q == req[r] IN
        (PassedSecretCheck(r) /\ q.event \notin RecognizedEvents /\ q.pc = "done") =>
          /\ q.slots = << "onOtherEvent" >>
          /\ \A i \in 1 .. Len(q.calls) : q.calls[i].slot = "onOtherEvent"
          /\ "onOtherEvent" \in handlers => Len(q.calls) = 1
          /\ ~ q.threw => q.logged = 0
          /\ q.resp = Received

\* C13 (as claimed): with no handlers supplied, every notification that passed
\* the secret check ends with no handler invoked, no error raised or logged, the
\* sync of each snapshot that has an id and a status issued, and received:true
\* returned.
C13_NoHandlerIsSilentNoOp ==
    \A r \in Slots :
        LET q == req[r] IN
        (handlers = {} /\ PassedSecretCheck(r) /\ q.pc = "done") =>
          /\ q.calls = << >>
          /\ q.logged = 0
          /\ q.resp # Rejected
          /\ HasIdAndStatus(q.subscription) => SyncIssued(r, "asaasSubscription")
          /\ HasIdAndStatus(q.payment) => SyncIssued(r, "asaasPayment")
          /\ q.resp = Received

\* C14: a notification is acknowledged only after its whole pass: in every state
\* where received:true has been returned, the switch has run, no handler of the
\* notification is still running, the handler of the reached slot (when
\* registered) has been called and has settled, the sync updates, the forced
\* update and the QR fetch the notification calls for have all been issued and
\* have resolved or rejected, and the request is over.
C14_AckAfterWholePass ==
    \A r \in Slots :
        LET q == req[r] IN
        q.resp = Received =>
          /\ q.pc = "done"
          /\ ~ q.pending
          /\ Len(q.slots) = 1
          /\ q.slots[1] \in handlers => Len(q.calls) = 1
          /\ HasIdAndStatus(q.subscription) => SyncIssued(r, "asaasSubscription")
          /\ HasIdAndStatus(q.payment) => SyncIssued(r, "asaasPayment")
          /\ FetchesQrCode(q.event, q.payment) => Len(q.gateway) = 1
          /\ ForcesInactive(q.event, q.subscription) =>
               (q.updates # << >> /\ LastOf(q.updates).by = "force")

\* a PIX PAYMENT_CREATED notification has been acknowledged after its payment
\* sync, its QR fetch and its handler, which threw
C14_Witness ==
    \E r \in Slots :
        /\ req[r].resp = Received
        /\ req[r].event = "PAYMENT_CREATED"
        /\ Len(req[r].updates) = 1
        /\ Len(req[r].gateway) = 1
        /\ Len(req[r].calls) = 1
        /\ req[r].threw
        /\ ~ req[r].pending

\* C15 (as claimed): with no webhookSecret configured, whatever the header of a
\* notification (absent included), no 401 is returned and the notification is
\* processed: when its request ends the sync of each snapshot that has an id and
\* a status has been issued, one slot has been dispatched and received:true has
\* been returned.
C15_NoSecretProcessesAll ==
    \A r \in Slots :
        LET q == req[r] IN
        (webhookSecret = None /\ InFlight(r)) =>
          /\ q.resp # Unauthorized401
          /\ q.pc = "done" =>
               /\ HasIdAndStatus(q.subscription) => SyncIssued(r, "asaasSubscription")
               /\ HasIdAndStatus(q.payment) => SyncIssued(r, "asaasPayment")
               /\ Len(q.slots) = 1
               /\ q.resp = Received

\* C16: no operation removes a row from a mirror table.  Every step of a webhook
\* notification, of cancel-subscription, of delete-payment and of the create
\* endpoints leaves in each table every gateway id that was there; a cancel or
\* delete whose store write went through was a status overwrite (INACTIVE,
\* DELETED) and its row is still there.
C16_NoRowRemoved ==
    /\ [][ /\ \A i \in SubIds : asaasSubscription[i] # NoRow => asaasSubscription'[i] # NoRow
           /\ \A i \in PayIds : asaasPayment[i] # NoRow => asaasPayment'[i] # NoRow ]_vars
    /\ [](\A i \in 1 .. Len(ep.writes) :
            (ep.op \in { "cancelSubscription", "deletePayment" } /\ ep.writes[i].ok) =>
               /\ ep.writes[i].kind = "update"
               /\ ep.writes[i].status =
                    (IF ep.op = "cancelSubscription" THEN "INACTIVE" ELSE "DELETED")
               /\ IF ep.op = "cancelSubscription"
                  THEN asaasSubscription[ep.id] # NoRow
                  ELSE asaasPayment[ep.id] # NoRow)

\* pay_1 has been deleted through delete-payment and sub_1 is INACTIVE: both rows
\* are still in their tables
C16_Witness ==
    /\ ep.op = "deletePayment"
    /\ ep.id = "pay_1"
    /\ ep.resp = Ok200
    /\ asaasPayment["pay_1"] # NoRow
    /\ asaasPayment["pay_1"].status = "DELETED"
    /\ asaasSubscription["sub_1"] # NoRow
    /\ asaasSubscription["sub_1"].status = "INACTIVE"

\* the caller of the keyed endpoint call in flight owns no row with the
\* requested gateway id
C17_NotOwned ==
    IF ep.op \in { "cancelSubscription", "subscriptionPayments" }
    THEN ep.id \in SubIds /\
           (asaasSubscription[ep.id] = NoRow \/ asaasSubscription[ep.id].userId # ep.user)
    ELSE ep.id \in PayIds /\
           (asaasPayment[ep.id] = NoRow \/ asaasPayment[ep.id].userId # ep.user)

\* C17: a call of cancel-subscription, subscription-payments, delete-payment or
\* pix-qr-code whose caller owns no mirror row with the requested gateway id
\* (none exists, or it belongs to another user) makes no gateway call and issues
\* no store write, never answers 200, and answers 404 once its lookup has
\* resolved.
C17_OwnershipGate ==
    (ep.op \in KeyedOps /\ C17_NotOwned) =>
       /\ ep.gateway = << >>
       /\ ep.writes = << >>
       /\ ep.resp # Ok200
       /\ ep.pc \in { "find", "done" }
       /\ ep.looked => (ep.pc = "done" /\ ep.resp = NotFound404)

\* user_2 asked to cancel sub_1, which belongs to user_1, and got 404; the row is
\* as it was
C17_Witness ==
    /\ ep.op = "cancelSubscription"
    /\ ep.user = "user_2"
    /\ ep.id = "sub_1"
    /\ ep.resp = NotFound404
    /\ asaasSubscription["sub_1"] # NoRow
    /\ asaasSubscription["sub_1"].userId = "user_1"
    /\ asaasSubscription["sub_1"].status = "ACTIVE"

\* C18: frame of the subscription status.  A step that changes the row of gateway
\* id X changes its status only, and is either the store write of a
\* cancel-subscription call for X made by the owner of the row, or a store
\* update of a webhook notification whose subscription snapshot has id X.
\* Notifications and calls about other ids, and every payment operation, leave
\* the row as it is.
C18_SubscriptionStatusFrame ==
    [][ \A x \in SubIds :
          (asaasSubscription[x] # NoRow /\ asaasSubscription'[x] # asaasSubscription[x]) =>
             /\ asaasSubscription'[x] =
                  [ asaasSubscription[x] EXCEPT !.status = asaasSubscription'[x].status ]
             /\ \/ /\ ep.op = "cancelSubscription"
                   /\ ep.id = x
                   /\ ep.user = asaasSubscription[x].userId
                   /\ Len(ep'.writes) = Len(ep.writes) + 1
                   /\ req' = req
                \/ /\ ep' = ep
                   /\ \E r \in Slots :
                        /\ req[r].subscription # NoSnapshot
                        /\ req[r].subscription.id = x
                        /\ Len(req'[r].updates) = Len(req[r].updates) + 1 ]_vars

\* sub_1 has been canceled by its owner while the row of sub_2, created before,
\* still has the status it was created with
C18_Witness ==
    /\ ep.op = "cancelSubscription"
    /\ ep.id = "sub_1"
    /\ ep.user = "user_1"
    /\ ep.resp = Ok200
    /\ asaasSubscription["sub_1"].status = "INACTIVE"
    /\ asaasSubscription["sub_2"] # NoRow
    /\ asaasSubscription["sub_2"].status = "ACTIVE"

\* the gateway customers whose externalReference is user u
C19_CustomersOf(u) == { c \in CustomerIds : customers[c] = u }
\* the run in slot r called createCustomer
C19_Created(r) ==
    \E i \in 1 .. Len(hook[r].gateway) : hook[r].gateway[i].op = "createCustomer"

\* C19: sign-up provisioning is idempotent.  With the runs of the hook one after
\* the other, the gateway never has more than one customer whose
\* externalReference is a given user id; a run that starts when that customer
\* exists and whose lookup resolves does not call createCustomer and goes on with
\* that customer's id, and the asaasCustomerId a run writes to the user row is
\* the id of that one customer.
C19_SignUpIdempotent ==
    /\ \A u \in Users : Cardinality(C19_CustomersOf(u)) <= 1
    /\ \A r \in Slots :
         LET h == hook[r] IN
         /\ (h.customerId # None) => C19_CustomersOf(h.newUser) = { h.customerId }
         /\ (h.pc \in { "update", "callback" } /\ ~ C19_Created(r)) =>
               (Len(h.gateway) = 1 /\ h.gateway[1].op = "listCustomers" /\ h.gateway[1].ok)
         /\ (h.wrote # None) =>
               /\ h.wrote = h.customerId
               /\ user[h.newUser] = h.wrote
               /\ C19_CustomersOf(h.newUser) = { h.wrote }
         /\ Len(h.gateway) <= 2

\* a later run for user_2, who had no customer at the start: its lookup found
\* the customer an earlier run created, it called createCustomer not at all and
\* wrote that customer's id to the user row
C19_Witness ==
    \E c \in CustomerIds :
        /\ customers[c] = "user_2"
        /\ hook[1].newUser = "user_2"
        /\ Len(hook[1].gateway) = 1
        /\ hook[1].gateway[1].op = "listCustomers"
        /\ hook[1].wrote = c
        /\ user["user_2"] = c

\* the index of the day a YYYY-MM-DD string names
C20_DayOf(date) == CHOOSE d \in -1 .. (NumDays + MaxTrialDays + 1) : DateString(d) = date

C22_NonOkFails ==
    (http.pc = "done" /\ http.status # 0) =>
       IF http.status \in 200 .. 299
       THEN /\ http.error \in { None, "SyntaxError" }
            /\ http.error = None => http.value # NoValue
       ELSE /\ http.error = "Asaas API error " \o ToString(http.status) \o ": " \o http.body
            /\ http.value = NoValue

\* deletePayment got a 404 and threw the error that carries the status and the body
C22_Witness ==
    /\ http.op = "deletePayment"
    /\ http.status = 404
    /\ http.error = "Asaas API error 404: {\"errors\":[]}"
    /\ http.value = NoValue

\* C23 (as claimed): in every reachable state the status of each subscription
\* mirror row is one of ACTIVE, INACTIVE, EXPIRED, whatever create, cancel and
\* webhook operations have run.
C23_StatusInEnum ==
    \A i \in SubIds :
        asaasSubscription[i] # NoRow =>
           asaasSubscription[i].status \in GatewaySubscriptionStatuses

\* C24 (as claimed): the today a PAYMENT_OVERDUE payment's dueDate is compared
\* with is the local calendar date of the process: whenever the local date and
\* the UTC date differ, a payment whose dueDate is the local date reaches
\* onPaymentDue and one whose dueDate is the UTC date reaches onPaymentOverdue.
C24_TodayIsLocalDate ==
    \A r \in Slots :
        LET q == req[r] IN
        (q.event = "PAYMENT_OVERDUE" /\ q.payment # NoSnapshot /\ q.slots # << >>
           /\ q.utcToday # q.localToday) =>
          /\ q.payment.dueDate = q.localToday => q.slots = << "onPaymentDue" >>
          /\ q.payment.dueDate = q.utcToday => q.slots = << "onPaymentOverdue" >>

\* C24 (amended): the today a PAYMENT_OVERDUE payment's dueDate is compared with
\* is the UTC calendar date: whenever the local date of the process and the UTC
\* date differ, a payment whose dueDate is the UTC date reaches onPaymentDue and
\* one whose dueDate is the local date reaches onPaymentOverdue.
C24_TodayIsUTCDate ==
    \A r \in Slots :
        LET q == req[r] IN
        (q.event = "PAYMENT_OVERDUE" /\ q.payment # NoSnapshot /\ q.slots # << >>
           /\ q.utcToday # q.localToday) =>
          /\ q.payment.dueDate = q.utcToday => q.slots = << "onPaymentDue" >>
          /\ q.payment.dueDate = q.localToday => q.slots = << "onPaymentOverdue" >>

\* a PAYMENT_OVERDUE notification whose dueDate is the local date of the process,
\* which is not the UTC date, has been processed and reached onPaymentOverdue
C24_Witness ==
    \E r \in Slots :
        /\ Processed(r)
        /\ req[r].event = "PAYMENT_OVERDUE"
        /\ req[r].payment # NoSnapshot
        /\ req[r].utcToday # req[r].localToday
        /\ req[r].payment.dueDate = req[r].localToday
        /\ req[r].slots = << "onPaymentOverdue" >>

C26_CreateOps == { "createSubscription" } \cup PaymentCreateOps

\* C26: a mirror row is created only after the gateway create call succeeded.  A
\* step that puts a row into a mirror table is the store write of a create
\* request whose gateway create call resolved; the row's gateway id is the id of
\* the object the gateway returned and its userId is the session user of the
\* request.  A create request whose gateway call failed fails and writes
\* nothing; one whose caller has no asaasCustomerId, and a create-subscription
\* with neither nextDueDate nor trialDays, is answered 400 with no gateway call
\* and no write.
C26_RowOnlyAfterGatewayCreate ==
    /\ [][ /\ \A i \in SubIds :
                (asaasSubscription[i] = NoRow /\ asaasSubscription'[i] # NoRow) =>
                   /\ ep.op = "createSubscription"
                   /\ ep.gateway = << GatewayCall("createSubscription", None, TRUE) >>
                   /\ ep.result # NoRow
                   /\ ep.result.id = i
                   /\ asaasSubscription'[i].userId = ep.user
           /\ \A i \in PayIds :
                (asaasPayment[i] = NoRow /\ asaasPayment'[i] # NoRow) =>
                   /\ ep.op \in PaymentCreateOps
                   /\ ep.gateway = << GatewayCall("createPayment", None, TRUE) >>
                   /\ ep.result # NoRow
                   /\ ep.result.id = i
                   /\ asaasPayment'[i].userId = ep.user ]_vars
    /\ []( ep.op \in C26_CreateOps =>
             /\ (ep.gateway # << >> /\ ~ ep.gateway[1].ok) =>
                   (ep.writes = << >> /\ ep.resp = Rejected)
             /\ ( \/ user[ep.user] = None
                  \/ (ep.op = "createSubscription" /\ ep.trialDays = 0
                        /\ ep.nextDueDate = None) ) =>
                   (ep.resp = BadRequest400 /\ ep.gateway = << >> /\ ep.writes = << >>)
             /\ ep.resp = BadRequest400 => (ep.gateway = << >> /\ ep.writes = << >>) )

\* user_1 created a PIX payment: the gateway made pay_2 and the row of pay_2
\* belongs to user_1
C26_Witness ==
    /\ ep.op = "createPixPayment"
    /\ ep.user = "user_1"
    /\ ep.resp = Ok200
    /\ ep.result.id = "pay_2"
    /\ asaasPayment["pay_2"] # NoRow
    /\ asaasPayment["pay_2"].userId = "user_1"

\* an update of the notification in slot r, issued by the given statement on the
\* given table, went through
C27_WentThrough(r, by, model) ==
    \E i \in 1 .. Len(req[r].updates) :
        /\ req[r].updates[i].by = by
        /\ req[r].updates[i].model = model
        /\ req[r].updates[i].ok

\* the forced update of a SUBSCRIPTION_DELETED notification with a subscription
\* id is the last store call of the notification in slot r
C27_ForcedIssued(r) ==
    (req[r].event = "SUBSCRIPTION_DELETED" /\ req[r].subscription # NoSnapshot
       /\ req[r].subscription.id # None) =>
        (req[r].updates # << >> /\ LastOf(req[r].updates).by = "force")

\* C27 (as claimed): when a handler of a notification has been invoked, the
\* generic sync of each of its snapshots that has an id and a status has been
\* applied to the store, the forced INACTIVE write of a SUBSCRIPTION_DELETED has
\* completed or failed, and the mirror rows of the notification hold the new
\* status.
C27_WritesAppliedBeforeDispatch ==
    \A r \in Slots :
        LET q == req[r] IN
        q.calls # << >> =>
          /\ HasIdAndStatus(q.subscription) => C27_WentThrough(r, "sync", "asaasSubscription")
          /\ HasIdAndStatus(q.payment) => C27_WentThrough(r, "sync", "asaasPayment")
          /\ C27_ForcedIssued(r)
          /\ (HasIdAndStatus(q.subscription) /\ asaasSubscription[q.subscription.id] # NoRow) =>
                asaasSubscription[q.subscription.id].status =
                   (IF C27_WentThrough(r, "force", "asaasSubscription")
                    THEN "INACTIVE" ELSE q.subscription.status)
          /\ (HasIdAndStatus(q.payment) /\ asaasPayment[q.payment.id] # NoRow) =>
                asaasPayment[q.payment.id].status = q.payment.status

\* C27 (amended): when a handler of a notification has been invoked, no store
\* call of the notification is still to come; the generic sync of each of its
\* snapshots that has an id and a status has been issued and has settled (the
\* subscription sync went through, the payment sync went through or failed and
\* was swallowed), the forced INACTIVE write of a SUBSCRIPTION_DELETED has
\* completed or failed and been swallowed, and each mirror row of the
\* notification whose write went through holds the new status.
C27_WritesSettledBeforeDispatch ==
    \A r \in Slots :
        LET q == req[r] IN
        q.calls # << >> =>
          /\ q.pc \in { "awaitHandler", "respond", "done" }
          /\ HasIdAndStatus(q.subscription) => C27_WentThrough(r, "sync", "asaasSubscription")
          /\ HasIdAndStatus(q.payment) => SyncIssued(r, "asaasPayment")
          /\ C27_ForcedIssued(r)
          /\ (HasIdAndStatus(q.subscription) /\ asaasSubscription[q.subscription.id] # NoRow) =>
                asaasSubscription[q.subscription.id].status =
                   (IF C27_WentThrough(r, "force", "asaasSubscription")
                    THEN "INACTIVE" ELSE q.subscription.status)
          /\ (q.subscription # NoSnapshot /\ q.subscription.id # None
                /\ asaasSubscription[q.subscription.id] # NoRow
                /\ C27_WentThrough(r, "force", "asaasSubscription")) =>
                asaasSubscription[q.subscription.id].status = "INACTIVE"
          /\ (HasIdAndStatus(q.payment) /\ asaasPayment[q.payment.id] # NoRow
                /\ C27_WentThrough(r, "sync", "asaasPayment")) =>
                asaasPayment[q.payment.id].status = q.payment.status

\* onSubscriptionCanceled is running for a SUBSCRIPTION_DELETED notification
\* about sub_1: the row is already INACTIVE, and the notification's payment sync
\* had failed and been swallowed
C27_Witness ==
    \E r \in Slots :
        /\ req[r].pending
        /\ req[r].event = "SUBSCRIPTION_DELETED"
        /\ req[r].calls # << >>
        /\ req[r].calls[1].slot = "onSubscriptionCanceled"
        /\ req[r].subscription # NoSnapshot
        /\ req[r].subscription.id = "sub_1"
        /\ req[r].subscription.status = "ACTIVE"
        /\ asaasSubscription["sub_1"].status = "INACTIVE"
        /\ HasIdAndStatus(req[r].payment)
        /\ SyncIssued(r, "asaasPayment")
        /\ ~ C27_WentThrough(r, "sync", "asaasPayment")

\* the status cancel-subscription and delete-payment write
C28_Target(op) == IF op = "cancelSubscription" THEN "INACTIVE" ELSE "DELETED"
\* the mirror row a cancel-subscription or delete-payment call is about
C28_Row(op, id, subs, pays) == IF op = "cancelSubscription" THEN subs[id] ELSE pays[id]

\* C28: cancel-subscription sets the owner's row to INACTIVE, and delete-payment
\* sets it to DELETED, only after the gateway call (cancelSubscription,
\* deletePayment) has succeeded: the only step of such a call that changes the
\* row is its store write, issued after the gateway call resolved, and it sets
\* the status to that value.  When the gateway call fails the endpoint fails, no
\* store write is issued and the step leaves the row as it was.
C28_WriteOnlyAfterGatewaySuccess ==
    /\ []( ep.op \in { "cancelSubscription", "deletePayment" } =>
             /\ ep.writes # << >> =>
                   /\ ep.gateway = << GatewayCall(GatewayMethod(ep.op), ep.id, TRUE) >>
                   /\ ep.writes = << StoreCall("update", TableOf(ep.op), ep.id,
                                              C28_Target(ep.op), ep.writes[1].ok) >>
             /\ (ep.gateway # << >> /\ ~ ep.gateway[1].ok) =>
                   /\ ep.pc = "done"
                   /\ ep.resp = Rejected
                   /\ ep.writes = << >>
             /\ ep.resp = Ok200 => (ep.writes # << >> /\ ep.writes[1].ok) )
    /\ [][ (ep.op \in { "cancelSubscription", "deletePayment" } /\ ep' # ep) =>
             LET before == C28_Row(ep.op, ep.id, asaasSubscription, asaasPayment)
                 after == C28_Row(ep.op, ep.id, asaasSubscription', asaasPayment')
             IN after # before =>
                  /\ ep.gateway # << >>
                  /\ ep.gateway[1].ok
                  /\ Len(ep'.writes) = Len(ep.writes) + 1
                  /\ before.userId = ep.user
                  /\ after = [ before EXCEPT !.status = C28_Target(ep.op) ] ]_vars

\* user_1 asked to delete pay_1 and the gateway call failed: the request failed
\* and the row still has the status it had; an earlier cancel of sub_1, whose
\* gateway call succeeded, left sub_1 INACTIVE
C28_Witness ==
    /\ ep.op = "deletePayment"
    /\ ep.user = "user_1"
    /\ ep.id = "pay_1"
    /\ ep.gateway # << >>
    /\ ~ ep.gateway[1].ok
    /\ ep.resp = Rejected
    /\ asaasPayment["pay_1"].status = "PENDING"
    /\ asaasSubscription["sub_1"].status = "INACTIVE"

\* C29 (as claimed): with runs of the sign-up hook for the same user id
\* overlapping in time, the gateway still has at most one customer whose
\* externalReference is that user id, and the asaasCustomerId a run has written
\* to the user row is the id of that customer.
C29_OverlappingRunsOneCustomer ==
    /\ \A u \in Users : Cardinality(C19_CustomersOf(u)) <= 1
    /\ \A r \in Slots :
         (hook[r].wrote # None /\ hook[r].pc = "done") =>
            /\ user[hook[r].newUser] \in C19_CustomersOf(hook[r].newUser)
            /\ C19_CustomersOf(hook[r].newUser) = { user[hook[r].newUser] }

\* a gateway call of the run in slot r failed
C30_GatewayFailed(r) ==
    \E i \in 1 .. Len(hook[r].gateway) : ~ hook[r].gateway[i].ok

\* C30: whatever fails inside sign-up provisioning (listCustomers,
\* createCustomer, the user update, the onCustomerCreated callback), the failure
\* is caught and logged and never reaches the sign-up request; a run whose
\* listCustomers or createCustomer failed has not written user.asaasCustomerId
\* and has not invoked onCustomerCreated, and the failing step leaves the user
\* table as it was; with disableAutoCreateCustomer set no run makes a gateway
\* call and no step changes the user table.
C30_ProvisioningNeverPropagates ==
    /\ [](\A r \in Slots :
            LET h == hook[r] IN
            /\ ~ h.failed
            /\ h.logged = h.failures
            /\ h.failures > 0 => h.pc = "done"
            /\ C30_GatewayFailed(r) =>
                  /\ h.failures = 1
                  /\ h.wrote = None
                  /\ ~ h.called
            /\ options.disableAutoCreateCustomer =>
                  /\ h.gateway = << >>
                  /\ h.wrote = None
                  /\ ~ h.called
                  /\ h.logged = 0)
    /\ [][ /\ options.disableAutoCreateCustomer => (user' = user /\ customers' = customers)
           /\ \A r \in Slots :
                (hook'[r].failures > hook[r].failures) => user' = user ]_vars

\* a run for user_2 whose lookup found no customer and whose createCustomer
\* failed: the error was logged, the hook returned normally, the user row has no
\* asaasCustomerId and onCustomerCreated, though supplied, was not invoked
C30_Witness ==
    \E r \in Slots :
        /\ hook[r].newUser = "user_2"
        /\ hook[r].pc = "done"
        /\ Len(hook[r].gateway) = 2
        /\ hook[r].gateway[1].ok
        /\ ~ hook[r].gateway[2].ok
        /\ hook[r].logged = 1
        /\ ~ hook[r].failed
        /\ hook[r].wrote = None
        /\ user["user_2"] = None
        /\ options.onCustomerCreated
        /\ ~ hook[r].called

====
